---- MODULE Spec2Model ----
(***************************************************************************)
(* Model of utils.py of GNSM-AI-GUIDE: the fact-extraction and page-       *)
(* matching pipeline (time-range normalizer, table/image extractor, fact   *)
(* formatter, page fetcher, page directory matcher).                       *)
(*                                                                         *)
(* Text is modelled as a sequence of one-character strings.  Characters    *)
(* SANY cannot read inside a string literal are written as tokens: a       *)
(* Hangul syllable is its romanisation (one token per syllable; a          *)
(* romanisation of one letter gets a trailing "_", so no syllable          *)
(* coincides with an ASCII character), another non-ASCII character is its  *)
(* code point ("U+2013").  The site origin is one token.                   *)
(***************************************************************************)
EXTENDS Integers, Sequences, FiniteSets, TLC

VARIABLES
    nt_pc,      \* normalizer run: "idle", "in", "once" (applied), "twice" (re-applied)
    nt_text,    \* the text handed to _normalize_time_ranges
    nt_out,     \* its result
    nt_again,   \* the result of applying it to nt_out
    m_pc,       \* matcher run: "idle", "in", "done"
    m_question, \* the question handed to _match_live_keys
    g_pc,       \* guess run: "idle", "in", "done"
    g_question, \* the question handed to _guess_live_key
    g_key,      \* the label it returned, NoKey for None
    m_result,   \* matched: the list it returned; guessed: the label announced
                \* by st.info, NoKey when none
    x_pc,       \* extractor run: "idle", "in", "tables", "shown", "done"
    x_html,     \* the document handed to the extractor and the formatter
    x_tables,   \* the text _extract_tables_from_html returned
    x_shown,    \* what _extract_tables_and_images_for_display returned
    x_facts,    \* the text _html_to_facts returned
    f_pc,       \* _fetch_page: "idle", "start", "get" (GET due), "done"
    f_url,      \* its argument
    f_calls,    \* the requests sent so far, in order
    f_outcome,  \* how the last request ended: "none", "ok" or the failure
    f_data,     \* resp.json() of the POST, NoText before
    f_body,     \* resp.text of the GET, NoText before
    f_result,   \* the record returned, <<>> before
    s_key,      \* whether OPENAI_API_KEY is set
    s_stage,    \* st.session_state.topic_stage
    s_group,    \* st.session_state.topic_group, NoGroup for None
    s_pending,  \* st.session_state.pending_query
    s_messages, \* st.session_state.messages
    s_page,     \* the widgets the latest run has drawn
    c_pc,       \* run_chat_assistant: "idle" between runs, "pages" in the
                \* loop over the matched labels
    c_trigger,  \* the widget whose event started the latest run, <<>> when
                \* the page was loaded
    c_user_msg, \* user_msg of the latest run, <<>> when it had none or was
                \* stopped
    c_matched,  \* matched_keys of that run
    c_sections, \* facts_sections
    c_links,    \* link_items
    c_rich,     \* has_rich_content
    c_fetched,  \* the pages that run has fetched, in order: label, address,
                \* requests sent, whether the error record came back
    c_llm,      \* how often that run has called llm.invoke
    c_end       \* how the latest run ended: "return" (line 708 or 736),
                \* "guide" (line 820), "answer" (line 884), "stopped" (stopped
                \* by the next event); "running" while it runs

ntVars == <<nt_pc, nt_text, nt_out, nt_again>>

mVars == <<m_pc, m_question, m_result>>

gVars == <<g_pc, g_question, g_key>>

xVars == <<x_pc, x_html, x_tables, x_shown, x_facts>>

fVars == <<f_pc, f_url, f_calls, f_outcome, f_data, f_body, f_result>>

sVars == <<s_key, s_stage, s_group, s_pending, s_messages, s_page>>

cVars == <<c_pc, c_trigger, c_user_msg, c_matched, c_sections, c_links, c_rich, c_fetched, c_llm, c_end>>

vars == <<ntVars, mVars, gVars, xVars, fVars, sVars, cVars>>

(***************************************************************************)
(* Generic helpers on sequences.                                           *)
(***************************************************************************)
Min(a, b) == IF a <= b THEN a ELSE b

Max(a, b) == IF a >= b THEN a ELSE b

\* s[i], or "" (no character) outside the text
At(s, i) == IF i >= 1 /\ i <= Len(s) THEN s[i] ELSE ""

\* the tail of s from position i
From(s, i) == SubSeq(s, i, Len(s))

\* Python's `sub in s` on sequences
IsPrefixAt(sub, s, i) ==
    /\ i + Len(sub) - 1 <= Len(s)
    /\ \A k \in 1..Len(sub) : s[i + k - 1] = sub[k]

Contains(s, sub) == \E i \in 1..(Len(s) + 1) : IsPrefixAt(sub, s, i)

RECURSIVE Flatten(_)
Flatten(ss) == IF ss = <<>> THEN <<>> ELSE Head(ss) \o Flatten(Tail(ss))

(***************************************************************************)
(* 1. _normalize_time_ranges (utils.py 39-57)                              *)
(***************************************************************************)
Digits == {"0", "1", "2", "3", "4", "5", "6", "7", "8", "9"}

Spaces == {" ", "\t", "\n"}

\* (~|∼|-|–|—) : tilde, U+223C, hyphen, en dash, em dash
Separators == {"~", "U+223C", "-", "U+2013", "U+2014"}

IsDigit(c) == c \in Digits

IsSpace(c) == c \in Spaces

\* (\d{1,2}:\d{2}) tried at position i: the length matched (5, 4) or 0.
\* The greedy two-digit hour is tried first; when it matches, the one-digit
\* alternative cannot (its ':' would have to be the second digit).
TimeTokenLen(s, i) ==
    IF /\ IsDigit(At(s, i)) /\ IsDigit(At(s, i + 1)) /\ At(s, i + 2) = ":"
       /\ IsDigit(At(s, i + 3)) /\ IsDigit(At(s, i + 4))
    THEN 5
    ELSE IF /\ IsDigit(At(s, i)) /\ At(s, i + 1) = ":"
            /\ IsDigit(At(s, i + 2)) /\ IsDigit(At(s, i + 3))
         THEN 4
         ELSE 0

\* \s* from position i: the first position that is not whitespace
RECURSIVE SkipSpaces(_, _)
SkipSpaces(s, i) == IF IsSpace(At(s, i)) THEN SkipSpaces(s, i + 1) ELSE i

\* _TIME_RANGE_PATTERN tried at position i.  ok: it matches; start, sep, end:
\* groups 1..3 (sep = <<>> when group 2 did not take part); next: the
\* position after the match.
TIME_RANGE_PATTERN(s, i) ==
    LET n1     == TimeTokenLen(s, i)
        k      == SkipSpaces(s, i + n1)
        hasSep == At(s, k) \in Separators
        l      == SkipSpaces(s, IF hasSep THEN k + 1 ELSE k)
        n2     == TimeTokenLen(s, l)
    IN  [ok    |-> n1 > 0 /\ n2 > 0,
         start |-> SubSeq(s, i, i + n1 - 1),
         sep   |-> IF hasSep THEN <<At(s, k)>> ELSE <<>>,
         end   |-> SubSeq(s, l, l + n2 - 1),
         next  |-> l + n2]

\* a slip: the default separator is left out
repl_NoTilde(m) ==
    IF m.sep # <<>> THEN m.start \o m.sep \o m.end ELSE m.start \o m.end

\* repl: an existing separator is kept, otherwise '~' is filled in
repl(m) ==
    IF m.sep # <<>>
    THEN m.start \o m.sep \o m.end
    ELSE m.start \o <<"~">> \o m.end

\* re.sub: leftmost matches, not overlapping, scanned from position i
RECURSIVE SubFrom(_, _)
SubFrom(s, i) ==
    IF i > Len(s) THEN <<>>
    ELSE LET m == TIME_RANGE_PATTERN(s, i)
         IN  IF m.ok THEN repl(m) \o SubFrom(s, m.next)
                     ELSE <<s[i]>> \o SubFrom(s, i + 1)

normalize_time_ranges(text) == SubFrom(text, 1)

\* the spans <<first, next>> of the matches re.sub replaces, from position i
RECURSIVE MatchSpansFrom(_, _)
MatchSpansFrom(s, i) ==
    IF i > Len(s) THEN {}
    ELSE LET m == TIME_RANGE_PATTERN(s, i)
         IN  IF m.ok THEN {<<i, m.next>>} \cup MatchSpansFrom(s, m.next)
                     ELSE MatchSpansFrom(s, i + 1)

MatchSpans(s) == MatchSpansFrom(s, 1)

(***************************************************************************)
(* The normalizer applied to bounded texts, and applied again.             *)
(***************************************************************************)
MaxPieces == 4

TextPieces ==
    { <<"1", ":", "0", "0">>, <<"1", "0", ":", "4", "0">>,
      <<" ">>, <<"~">>, <<"-">>, <<"x">>, <<"1">> }

NormTexts ==
    UNION { { Flatten(f) : f \in [1..n -> TextPieces] } : n \in 0..MaxPieces }

NTInit ==
    /\ nt_pc = "in"
    /\ nt_text \in NormTexts
    /\ nt_out = <<>>
    /\ nt_again = <<>>

Normalize ==
    /\ nt_pc = "in"
    /\ nt_out' = normalize_time_ranges(nt_text)
    /\ nt_pc' = "once"
    /\ UNCHANGED <<nt_text, nt_again>>

NormalizeAgain ==
    /\ nt_pc = "once"
    /\ nt_again' = normalize_time_ranges(nt_out)
    /\ nt_pc' = "twice"
    /\ UNCHANGED <<nt_text, nt_out>>

NTIdle ==
    /\ nt_pc = "idle"
    /\ nt_text = <<>>
    /\ nt_out = <<>>
    /\ nt_again = <<>>

(***************************************************************************)
(* 2. The page directory and the matcher (utils.py 342-415, 497-558)       *)
(***************************************************************************)
\* LIVE_PAGES in iteration order: label and target URL.  A URL is the site
\* origin as one token, then '/' and digit characters one by one and every
\* other run of characters as one token.
LIVE_PAGES == <<
    [key |-> <<"hom", "pe", "i_", "ji">>,
     url |-> <<"https://www.sciencecenter.go.kr", "/">>],
    [key |-> <<"gong", "ji", "sa", "hang">>,
     url |-> <<"https://www.sciencecenter.go.kr", "/", "scipia", "/", "introduce", "/", "notice">>],
    [key |-> <<"i_", "yong", "an", "nae">>,
     url |-> <<"https://www.sciencecenter.go.kr", "/", "scipia", "/", "guide", "/", "totalGuide">>],
    [key |-> <<"ju", "cha", "an", "nae">>,
     url |-> <<"https://www.sciencecenter.go.kr", "/", "scipia", "/", "introduce", "/", "parking">>],
    [key |-> <<"yeon", "gan", "hoe", "won">>,
     url |-> <<"https://www.sciencecenter.go.kr", "/", "scipia", "/", "guide", "/", "paidMember">>],
    [key |-> <<"dan", "che", "gwan", "ram">>,
     url |-> <<"https://www.sciencecenter.go.kr", "/", "scipia", "/", "guide", "/", "groupTours">>],
    [key |-> <<"chu", "cheon", "gwan", "ram", "ko", "seu">>,
     url |-> <<"https://www.sciencecenter.go.kr", "/", "scipia", "/", "guide", "/", "recommendCourse">>],
    [key |-> <<"gwan", "ram", "gaeg", "dae", "pi">>,
     url |-> <<"https://www.sciencecenter.go.kr", "/", "scipia", "/", "communication", "/", "safety">>],
    [key |-> <<"an", "jeon", "sa", "go", "su", "chig">>,
     url |-> <<"https://www.sciencecenter.go.kr", "/", "scipia", "/", "communication", "/", "safetyRule">>],
    [key |-> <<"pyeon", "ui", "si", "seol">>,
     url |-> <<"https://www.sciencecenter.go.kr", "/", "scipia", "/", "guide", "/", "convenience">>],
    [key |-> <<"sig", "eum", "si", "seol">>,
     url |-> <<"https://www.sciencecenter.go.kr", "/", "scipia", "/", "guide", "/", "food">>],
    [key |-> <<"gyo", "tong", "an", "nae">>,
     url |-> <<"https://www.sciencecenter.go.kr", "/", "scipia", "/", "introduce", "/", "location">>],
    [key |-> <<"haeng", "sa">>,
     url |-> <<"https://www.sciencecenter.go.kr", "/", "scipia", "/", "events", "/", "list", "/", "culture">>],
    [key |-> <<"gong", "yeon">>,
     url |-> <<"https://www.sciencecenter.go.kr", "/", "scipia", "/", "events", "/", "list", "/", "play">>],
    [key |-> <<"cheon", "che", "tu", "yeong", "gwan", " ", "so", "gae">>,
     url |-> <<"https://www.sciencecenter.go.kr", "/", "scipia", "/", "display", "/", "planetarium">>],
    [key |-> <<"cheon", "che", "tu", "yeong", "gwan", " ", "un", "yeong">>,
     url |-> <<"https://www.sciencecenter.go.kr", "/", "scipia", "/", "introduce", "/", "notice", "/", "2", "4", "2", "8", "1">>],
    [key |-> <<"cheon", "che", "tu", "yeong", "gwan", " ", "peu", "ro", "geu", "raem">>,
     url |-> <<"https://www.sciencecenter.go.kr", "/", "scipia", "/", "introduce", "/", "notice", "/", "2", "4", "2", "8", "1">>],
    [key |-> <<"cheon", "che", "tu", "yeong", "gwan", " ", "ye", "yag">>,
     url |-> <<"https://www.sciencecenter.go.kr", "/", "scipia", "/", "schedules?ACADEMY_CD=ACD", "0", "0", "7", "&CLASS_CD=CL", "7", "0", "0", "1">>],
    [key |-> <<"cheon", "che", "tu", "yeong", "gwan", " ", "dan", "che">>,
     url |-> <<"https://www.sciencecenter.go.kr", "/", "scipia", "/", "introduce", "/", "notice", "/", "2", "3", "4", "4", "1">>],
    [key |-> <<"cheon", "mun", "dae", " ", "so", "gae">>,
     url |-> <<"https://www.sciencecenter.go.kr", "/", "scipia", "/", "display", "/", "planetarium", "/", "observation">>],
    [key |-> <<"cheon", "mun", "dae", " ", "un", "yeong">>,
     url |-> <<"https://www.sciencecenter.go.kr", "/", "scipia", "/", "introduce", "/", "notice", "/", "2", "5", "0", "9", "8">>],
    [key |-> <<"cheon", "mun", "dae", " ", "peu", "ro", "geu", "raem">>,
     url |-> <<"https://www.sciencecenter.go.kr", "/", "scipia", "/", "introduce", "/", "notice", "/", "2", "5", "0", "9", "8">>],
    [key |-> <<"cheon", "mun", "dae", " ", "ye", "yag">>,
     url |-> <<"https://www.sciencecenter.go.kr", "/", "scipia", "/", "schedules?ACADEMY_CD=ACD", "0", "0", "7", "&CLASS_CD=CL", "7", "0", "0", "3">>],
    [key |-> <<"cheon", "mun", "dae", " ", "dan", "che">>,
     url |-> <<"https://www.sciencecenter.go.kr", "/", "scipia", "/", "introduce", "/", "notice", "/", "2", "5", "1", "0", "0">>],
    [key |-> <<"seu", "pe", "i_", "seu", " ", "a_", "nal", "ro", "geu", " ", "peu", "ro", "geu", "raem">>,
     url |-> <<"https://www.sciencecenter.go.kr", "/", "scipia", "/", "display", "/", "planetarium", "/", "spaceAnalog">>],
    [key |-> <<"seu", "pe", "i_", "seu", " ", "a_", "nal", "ro", "geu", " ", "ye", "yag">>,
     url |-> <<"https://www.sciencecenter.go.kr", "/", "scipia", "/", "schedules?ACADEMY_CD=ACD", "0", "0", "7", "&CLASS_CD=CL", "7", "0", "0", "2">>],
    [key |-> <<"seu", "pe", "i_", "seu", " ", "a_", "nal", "ro", "geu", " ", "dan", "che">>,
     url |-> <<"https://www.sciencecenter.go.kr", "/", "scipia", "/", "introduce", "/", "notice", "/", "2", "4", "4", "0", "0">>],
    [key |-> <<"ja", "yeon", "sa", "gwan">>,
     url |-> <<"https://www.sciencecenter.go.kr", "/", "scipia", "/", "display", "/", "mainBuilding", "/", "naturalHistory">>],
    [key |-> <<"cheom", "dan", "gi", "sul", "gwan">>,
     url |-> <<"https://www.sciencecenter.go.kr", "/", "scipia", "/", "display", "/", "mainBuilding", "/", "advancedTechnology", "2">>],
    [key |-> <<"gwa", "hag", "tam", "gu", "gwan">>,
     url |-> <<"https://www.sciencecenter.go.kr", "/", "scipia", "/", "display", "/", "mainBuilding", "/", "basicScience">>],
    [key |-> <<"han", "gug", "mun", "myeong", "gwan">>,
     url |-> <<"https://www.sciencecenter.go.kr", "/", "scipia", "/", "display", "/", "mainBuilding", "/", "traditionalSciences">>],
    [key |-> <<"mi", "rae", "sang", "sang", "S", "F", "gwan">>,
     url |-> <<"https://www.sciencecenter.go.kr", "/", "scipia", "/", "display", "/", "mainBuilding", "/", "sfSpecial">>],
    [key |-> <<"yu", "a_", "che", "heom", "gwan">>,
     url |-> <<"https://www.sciencecenter.go.kr", "/", "scipia", "/", "display", "/", "mainBuilding", "/", "kidsPlayground">>],
    [key |-> <<"myeong", "ye", "ui", "jeon", "dang">>,
     url |-> <<"https://www.sciencecenter.go.kr", "/", "scipia", "/", "display", "/", "frontier", "/", "hallOfFame">>],
    [key |-> <<"teug", "byeol", "gi", "hoeg", "jeon">>,
     url |-> <<"https://www.sciencecenter.go.kr", "/", "scipia", "/", "events", "/", "list", "/", "exhibition#n">>],
    [key |-> <<"che", "heom", "jeon", "si", "mul", " ", "ye", "yag">>,
     url |-> <<"https://www.sciencecenter.go.kr", "/", "scipia", "/", "display", "/", "displayExperience">>],
    [key |-> <<"jeon", "si", "jang", " ", "peu", "ro", "geu", "raem", " ", "an", "nae">>,
     url |-> <<"https://www.sciencecenter.go.kr", "/", "scipia", "/", "introduce", "/", "notice", "/", "2", "5", "3", "9", "9">>],
    [key |-> <<"jeon", "si", "hae", "seol">>,
     url |-> <<"https://www.sciencecenter.go.kr", "/", "scipia", "/", "display", "/", "displayExplanation">>],
    [key |-> <<"gon", "chung", "saeng", "tae", "gwan">>,
     url |-> <<"https://www.sciencecenter.go.kr", "/", "scipia", "/", "display", "/", "outdoorEcological", "/", "insectarium">>],
    [key |-> <<"saeng", "tae", "gong", "won">>,
     url |-> <<"https://www.sciencecenter.go.kr", "/", "scipia", "/", "display", "/", "outdoorEcological", "/", "ecoPark">>],
    [key |-> <<"gong", "ryong", "gong", "won">>,
     url |-> <<"https://www.sciencecenter.go.kr", "/", "scipia", "/", "display", "/", "outdoorEcological", "/", "dinosaurAndHistory">>],
    [key |-> <<"og", "oe", "jeon", "si", "jang">>,
     url |-> <<"https://www.sciencecenter.go.kr", "/", "scipia", "/", "display", "/", "outdoorEcological", "/", "outdoor">>],
    [key |-> <<"in", "sa", "mal">>,
     url |-> <<"https://www.sciencecenter.go.kr", "/", "scipia", "/", "introduce", "/", "chief">>],
    [key |-> <<"yeon", "hyeog">>,
     url |-> <<"https://www.sciencecenter.go.kr", "/", "scipia", "/", "introduce", "/", "history">>],
    [key |-> <<"jo", "jig", " ", "mich", " ", "yeon", "hyeog">>,
     url |-> <<"https://www.sciencecenter.go.kr", "/", "scipia", "/", "introduce", "/", "organization">>],
    [key |-> <<"ju", "byeon", "si", "seol">>,
     url |-> <<"https://www.sciencecenter.go.kr", "/", "scipia", "/", "introduce", "/", "surround">>],
    [key |-> <<"yu", "gwan", "gi", "gwan">>,
     url |-> <<"https://www.sciencecenter.go.kr", "/", "scipia", "/", "introduce", "/", "familySites">>],
    [key |-> <<"su", "do", "gwon", "gwa", "hag", "gwan">>,
     url |-> <<"https://www.sciencecenter.go.kr", "/", "scipia", "/", "introduce", "/", "capitalScience">>],
    [key |-> <<"bo", "do", "ja", "ryo">>,
     url |-> <<"https://www.sciencecenter.go.kr", "/", "scipia", "/", "introduce", "/", "report">>],
    [key |-> <<"hyeon", "jang", "seu", "ke", "chi">>,
     url |-> <<"https://www.sciencecenter.go.kr", "/", "scipia", "/", "introduce", "/", "sketch">>],
    [key |-> <<"chae", "yong", "gong", "go">>,
     url |-> <<"https://www.sciencecenter.go.kr", "/", "scipia", "/", "introduce", "/", "recruit">>],
    [key |-> <<"il", "ban", "ja", "ryo", "sil">>,
     url |-> <<"https://www.sciencecenter.go.kr", "/", "scipia", "/", "communication", "/", "normalLibrary">>],
    [key |-> <<"gyu", "jeong", "ja", "ryo", "sil">>,
     url |-> <<"https://www.sciencecenter.go.kr", "/", "scipia", "/", "communication", "/", "roleLibrary">>],
    [key |-> <<"ja", "ju", "mud", "neun", "jil", "mun">>,
     url |-> <<"https://www.sciencecenter.go.kr", "/", "scipia", "/", "communication", "/", "faq", "/", "faqTotal">>],
    [key |-> <<"ui", "gyeon", "su", "ryeom">>,
     url |-> <<"https://www.sciencecenter.go.kr", "/", "scipia", "/", "communication", "/", "opinions">>],
    [key |-> <<"gwa", "hag", "ja", "ryo", "sil">>,
     url |-> <<"https://www.sciencecenter.go.kr", "/", "scipia", "/", "references">>],
    [key |-> <<"ja", "won", "bong", "sa">>,
     url |-> <<"https://www.sciencecenter.go.kr", "/", "scipia", "/", "schedules", "/", "voluntary">>]
>>

time_fee_keywords == <<
    <<"un", "yeong", "si", "gan">>,
    <<"gwan", "ram", "si", "gan">>,
    <<"gae", "gwan", "si", "gan">>,
    <<"pye", "gwan", "si", "gan">>,
    <<"gwan", "ram", "yo", "geum">>,
    <<"gwan", "ram", "ryo">>,
    <<"ib", "jang", "ryo">>,
    <<"yo", "geum">>,
    <<"gwan", "ram", "il">>,
    <<"un", "yeong", "il">>,
    <<"gae", "gwan", "il">>,
    <<"hyu", "gwan", "il">>,
    <<"hyu", "mu", "il">>,
    <<"hyu", "gwan">>,
    <<"hyu", "mu">>,
    <<"un", "yeong", "il", "jeong">>,
    <<"gae", "gwan", "il", "jeong">>
>>

\* the whitespace-stripped form: re.sub(r"\s+", "", s)
RECURSIVE StripWhitespace(_)
StripWhitespace(s) ==
    IF s = <<>> THEN <<>>
    ELSE IF IsSpace(Head(s)) THEN StripWhitespace(Tail(s))
         ELSE <<Head(s)>> \o StripWhitespace(Tail(s))

\* key.replace(" ", "")
RECURSIVE RemoveBlanks(_)
RemoveBlanks(s) ==
    IF s = <<>> THEN <<>>
    ELSE IF Head(s) = " " THEN RemoveBlanks(Tail(s))
         ELSE <<Head(s)>> \o RemoveBlanks(Tail(s))

(***************************************************************************)
(* difflib.SequenceMatcher(None, a, b).ratio() for texts under 200         *)
(* characters (no junk, no popular-element pruning).  Positions are        *)
(* 1-based and ranges half-open: [alo, ahi) x [blo, bhi).                  *)
(***************************************************************************)
\* length of the common run of a from i and b from j inside the ranges
RECURSIVE RunLen(_, _, _, _, _, _)
RunLen(a, b, i, j, ahi, bhi) ==
    IF i < ahi /\ j < bhi /\ a[i] = b[j]
    THEN 1 + RunLen(a, b, i + 1, j + 1, ahi, bhi)
    ELSE 0

\* the common blocks of the ranges, one from every pair of equal characters
Blocks(a, b, alo, ahi, blo, bhi) ==
    { [i |-> c[1], j |-> c[2], size |-> RunLen(a, b, c[1], c[2], ahi, bhi)]
      : c \in { d \in (alo..(ahi - 1)) \X (blo..(bhi - 1)) : a[d[1]] = b[d[2]] } }

\* m is kept when it meets n: the longer block, of equal ones the one
\* starting earlier in a, then earlier in b
Preferred(m, n) ==
    \/ m.size > n.size
    \/ m.size = n.size /\ (m.i < n.i \/ (m.i = n.i /\ m.j <= n.j))

PickBlock(blocks, alo, blo) ==
    IF blocks = {} THEN [i |-> alo, j |-> blo, size |-> 0]
    ELSE CHOOSE m \in blocks : \A n \in blocks : Preferred(m, n)

find_longest_match(a, b, alo, ahi, blo, bhi) ==
    PickBlock(Blocks(a, b, alo, ahi, blo, bhi), alo, blo)

\* get_matching_blocks: the total size of the blocks found by splitting
\* around the longest block m, left and right
RECURSIVE MatchingSize(_, _, _, _, _, _)
SizeAround(a, b, alo, ahi, blo, bhi, m) ==
    IF m.size = 0 THEN 0
    ELSE m.size
         + (IF alo < m.i /\ blo < m.j
            THEN MatchingSize(a, b, alo, m.i, blo, m.j) ELSE 0)
         + (IF m.i + m.size < ahi /\ m.j + m.size < bhi
            THEN MatchingSize(a, b, m.i + m.size, ahi, m.j + m.size, bhi) ELSE 0)

MatchingSize(a, b, alo, ahi, blo, bhi) ==
    SizeAround(a, b, alo, ahi, blo, bhi, find_longest_match(a, b, alo, ahi, blo, bhi))

\* a score in [0, 1] is the fraction num/den
Frac(n, d) == [num |-> n, den |-> d]

FracLess(x, y) == x.num * y.den < y.num * x.den

FracMax(x, y) == IF FracLess(x, y) THEN y ELSE x

\* ratio(): 2.0 * matches / (len(a) + len(b)), and 1.0 for two empty texts
ratio(a, b) ==
    IF Len(a) + Len(b) = 0 THEN Frac(1, 1)
    ELSE Frac(2 * MatchingSize(a, b, 1, Len(a) + 1, 1, Len(b) + 1), Len(a) + Len(b))

\* the default cutoff of _guess_live_key, 0.6
CUTOFF == Frac(6, 10)

\* the score forced when one text contains the other, 0.99
NEAR_MAX == Frac(99, 100)

\* lines 506-509 for key_norm
NormScore(key_norm, q) ==
    IF Contains(q, key_norm) \/ Contains(key_norm, q)
    THEN FracMax(ratio(key_norm, q), NEAR_MAX)
    ELSE ratio(key_norm, q)

\* the score of one label against the stripped question (lines 504-509)
KeyScore(key, q) == NormScore(RemoveBlanks(key), q)

NoKey == <<>>

\* the labels of LIVE_PAGES in iteration order
DirKeys == [n \in 1..Len(LIVE_PAGES) |-> LIVE_PAGES[n].key]

\* the loop of _guess_live_key from directory index n on
RECURSIVE GuessLoop(_, _, _, _)
\* a slip: a label that only equals the best score replaces the best
GuessStep_LastWins(q, n, best_key, best_score, key, score) ==
    IF ~FracLess(score, best_score)
    THEN GuessLoop(q, n + 1, key, score)
    ELSE GuessLoop(q, n + 1, best_key, best_score)

\* lines 511-513 for a label and its score
GuessStep(q, n, best_key, best_score, key, score) ==
    IF FracLess(best_score, score)
    THEN GuessLoop(q, n + 1, key, score)
    ELSE GuessLoop(q, n + 1, best_key, best_score)

GuessLoop(q, n, best_key, best_score) ==
    IF n > Len(DirKeys) THEN [best_key |-> best_key, best_score |-> best_score]
    ELSE GuessStep(q, n, best_key, best_score, DirKeys[n], KeyScore(DirKeys[n], q))

\* a slip: the guess is accepted whatever its score
AcceptGuess_NoCutoff(best, cutoff) == best.best_key

\* lines 515-518
AcceptGuess(best, cutoff) ==
    IF best.best_key # NoKey /\ ~FracLess(best.best_score, cutoff)
    THEN best.best_key
    ELSE NoKey

guess_live_key(question, cutoff) ==
    AcceptGuess(GuessLoop(StripWhitespace(question), 1, NoKey, Frac(0, 1)), cutoff)

USAGE_GUIDE == <<"i_", "yong", "an", "nae">>

\* a slip: labels are compared with their spaces left in
SubstringKeys_Unstripped(q) == SelectSeq(DirKeys, LAMBDA key : Contains(q, key))

\* lines 525-527: the labels that, spaces removed, are part of q
SubstringKeys(q) == SelectSeq(DirKeys, LAMBDA key : Contains(q, RemoveBlanks(key)))

\* lines 554: any(kw in q for kw in time_fee_keywords)
HasTimeFeeKeyword(q) ==
    \E n \in 1..Len(time_fee_keywords) : Contains(q, time_fee_keywords[n])

InSeq(x, s) == \E n \in 1..Len(s) : s[n] = x

\* a slip: the usage guide is appended without looking at matched
AppendUsageGuide_Always(matched, q) ==
    IF HasTimeFeeKeyword(q) THEN Append(matched, USAGE_GUIDE) ELSE matched

\* lines 554-556
AppendUsageGuide(matched, q) ==
    IF HasTimeFeeKeyword(q) /\ ~InSeq(USAGE_GUIDE, matched)
    THEN Append(matched, USAGE_GUIDE)
    ELSE matched

\* lines 529-530: the guess is asked for only when no label matched
GuessIfNone(matched, question) ==
    IF matched = <<>> THEN guess_live_key(question, CUTOFF) ELSE NoKey

\* lines 531-532
WithGuess(matched, guessed) ==
    IF guessed # NoKey THEN Append(matched, guessed) ELSE matched

\* lines 529-558 after the substring loop
MatchRest(matched, guessed, q) ==
    [matched |-> AppendUsageGuide(WithGuess(matched, guessed), q), guessed |-> guessed]

\* _match_live_keys for the stripped question q
MatchStripped(question, q) ==
    MatchRest(SubstringKeys(q), GuessIfNone(SubstringKeys(q), question), q)

\* _match_live_keys: the list returned and the label announced by st.info
\* (NoKey when nothing is announced)
match_live_keys(question) == MatchStripped(question, StripWhitespace(question))

(***************************************************************************)
(* The matcher applied to bounded questions.                               *)
(***************************************************************************)
MaxWords == 2

QueryWords == {
    <<"gwan", "ram", "yo", "geum">>,
    <<" ", "al", "ryeo", "jwo">>,
    <<"seu", "pe", "i_", "seu", " ", "a_", "nal", "ro", "geu", " ", "dan", "che">>,
    <<"ju", "cha", "an", "nae">>,
    <<"i_", "yong", "an", "nae">>,
    <<"ju", "cha", "an", "ne">>,
    <<"jo", "jig", " ", "mich", " ", "yeon", "hyeog">>,
    <<"hyu", "gwan", "il">>,
    <<"an", "nyeong">>,
    <<"cheon", "mun", "dae">>,
    <<"i_", "yong", "an">>,
    <<"yo", "geum">>
}

Questions ==
    UNION { { Flatten(f) : f \in [1..n -> QueryWords] } : n \in 0..MaxWords }

MInit ==
    /\ m_pc = "in"
    /\ m_question \in Questions
    /\ m_result = [matched |-> <<>>, guessed |-> NoKey]

MIdle ==
    /\ m_pc = "idle"
    /\ m_question = <<>>
    /\ m_result = [matched |-> <<>>, guessed |-> NoKey]

Match ==
    /\ m_pc = "in"
    /\ m_result' = match_live_keys(m_question)
    /\ m_pc' = "done"
    /\ UNCHANGED m_question

(***************************************************************************)
(* _guess_live_key applied to bounded questions.                           *)
(***************************************************************************)
MaxGuessLen == 2

\* the pieces of up to MaxGuessLen characters of a text
PiecesOf(s) ==
    { SubSeq(s, c[1], c[1] + c[2] - 1) :
         c \in { d \in (1..Len(s)) \X (1..MaxGuessLen) : d[1] + d[2] - 1 <= Len(s) } }

LabelPieces == UNION { PiecesOf(RemoveBlanks(DirKeys[n])) : n \in 1..Len(DirKeys) }

\* nothing, blanks only, a piece of a label, a piece followed by a
\* character no label has, a piece between blanks
GuessQuestions ==
    {<<>>, <<" ">>, <<" ", "\n">>}
    \cup LabelPieces
    \cup { p \o <<"x">> : p \in LabelPieces }
    \cup { <<" ">> \o p \o <<"\t">> : p \in { r \in LabelPieces : Len(r) = 1 } }

GInit ==
    /\ g_pc = "in"
    /\ g_question \in GuessQuestions
    /\ g_key = NoKey

GIdle ==
    /\ g_pc = "idle"
    /\ g_question = <<>>
    /\ g_key = NoKey

Guess ==
    /\ g_pc = "in"
    /\ g_key' = guess_live_key(g_question, CUTOFF)
    /\ g_pc' = "done"
    /\ UNCHANGED g_question

(***************************************************************************)
(* 3. HTML -> FACTS (utils.py 116-257)                                     *)
(*                                                                         *)
(* An HTML text is modelled by what BeautifulSoup finds in it: the         *)
(* sequence, in document order, of its elements                            *)
(*   [tag, hidden, text, rows, src]                                        *)
(* tag: "h1".."h4", "p", "li", "title", "table", "img";                    *)
(* hidden: the element lies inside script/style/noscript/header/footer/nav;*)
(* text: " ".join(element.stripped_strings);                               *)
(* rows (table): the tr elements found, each the sequence of its th/td     *)
(*   cells [text, links], links the a elements [text, href] of the cell;   *)
(* src (img): the src attribute, <<>> when missing.                        *)
(* The empty sequence is the empty text.                                   *)
(***************************************************************************)
MUSEUM_BASE_URL == <<"https://www.sciencecenter.go.kr">>

\* "자세히 보기"
LINK_PLACEHOLDER == <<"ja", "se", "hi", " ", "bo", "gi">>

\* "### 텍스트", "### 표", "### 이미지 URL"
TEXT_HEADER == <<"#", "#", "#", " ", "teg", "seu", "teu">>

TABLES_HEADER == <<"#", "#", "#", " ", "pyo">>

IMAGES_HEADER == <<"#", "#", "#", " ", "i_", "mi", "ji", " ", "U", "R", "L">>

\* "이 페이지에서 텍스트나 표를 찾지 못했습니다."
NOTHING_FOUND ==
    <<"i_", " ", "pe", "i_", "ji", "e_", "seo", " ", "teg", "seu", "teu", "na", " ",
      "pyo", "reul", " ", "chaj", "ji", " ", "mos", "haess", "seub", "ni", "da", ".">>

\* the default of max_tables
MAX_TABLES == 10

\* sep.join(parts)
RECURSIVE Join(_, _)
Join(parts, sep) ==
    IF parts = <<>> THEN <<>>
    ELSE IF Len(parts) = 1 THEN parts[1]
         ELSE parts[1] \o sep \o Join(Tail(parts), sep)

\* str.strip()
RECURSIVE StripLeft(_)
StripLeft(s) == IF s # <<>> /\ IsSpace(Head(s)) THEN StripLeft(Tail(s)) ELSE s

RECURSIVE StripRight(_)
StripRight(s) ==
    IF s # <<>> /\ IsSpace(s[Len(s)]) THEN StripRight(SubSeq(s, 1, Len(s) - 1)) ELSE s

Strip(s) == StripRight(StripLeft(s))

\* if u.startswith("/"): u = MUSEUM_BASE_URL + u
AbsoluteUrl(u) == IF u # <<>> /\ Head(u) = "/" THEN MUSEUM_BASE_URL \o u ELSE u

\* the loop body over t in soup([...]): t.decompose()
Decompose(html) == SelectSeq(html, LAMBDA n : ~n.hidden)

(***************************************************************************)
(* _extract_tables_from_html                                               *)
(***************************************************************************)
\* lines 137-140: [text](href), or the text alone without a usable href
LinkMarkdown(text, href) ==
    IF href # <<>> THEN <<"[">> \o text \o <<"]", "(">> \o href \o <<")">> ELSE text

\* lines 133-140, one a element
LinkPart(a) ==
    LinkMarkdown(IF a.text # <<>> THEN a.text ELSE LINK_PLACEHOLDER,
                 AbsoluteUrl(Strip(a.href)))

\* lines 129-146, one th/td element
CellText(td) ==
    normalize_time_ranges(
        IF td.links # <<>>
        THEN Join([k \in 1..Len(td.links) |-> LinkPart(td.links[k])], <<" ">>)
        ELSE td.text)

\* lines 125-150: the rows of one table, rows without cells left out
TableRows(table) ==
    SelectSeq([r \in 1..Len(table.rows) |->
                  [c \in 1..Len(table.rows[r]) |-> CellText(table.rows[r][c])]],
              LAMBDA row : row # <<>>)

RECURSIVE MaxLen(_)
MaxLen(rows) == IF rows = <<>> THEN 0 ELSE Max(Len(Head(rows)), MaxLen(Tail(rows)))

\* line 156: r + [""] * (max_cols - len(r))
PadRow(r, max_cols) == r \o [k \in 1..(max_cols - Len(r)) |-> <<>>]

\* "| " + " | ".join(cells) + " |"
GridLine(cells) == <<"|", " ">> \o Join(cells, <<" ", "|", " ">>) \o <<" ", "|">>

\* lines 161-166 for padded rows
GridLines(rows, max_cols) ==
    <<GridLine(rows[1]), GridLine([k \in 1..max_cols |-> <<"-", "-", "-">>])>>
       \o [r \in 1..(Len(rows) - 1) |-> GridLine(rows[r + 1])]

\* lines 155-167 for the rows of one table (at least one row)
PaddedBlock(rows, max_cols) ==
    Join(GridLines([r \in 1..Len(rows) |-> PadRow(rows[r], max_cols)], max_cols), <<"\n">>)

TableBlock(rows) == PaddedBlock(rows, MaxLen(rows))

\* the blocks of the tables that have rows
BlocksOf(tableRows) ==
    LET kept == SelectSeq(tableRows, LAMBDA rows : rows # <<>>)
    IN  [t \in 1..Len(kept) |-> TableBlock(kept[t])]

extract_tables_from_html(html, max_tables) ==
    LET tables == SelectSeq(html, LAMBDA n : n.tag = "table")
    IN  Join(BlocksOf([t \in 1..Min(max_tables, Len(tables)) |-> TableRows(tables[t])]),
             <<"\n", "\n">>)

(***************************************************************************)
(* images, _extract_tables_and_images_for_display, _html_to_facts          *)
(***************************************************************************)
\* a slip: every source is appended
AddImage_NoDedup(image_urls, src) ==
    IF src = <<>> THEN image_urls ELSE Append(image_urls, AbsoluteUrl(src))

\* lines 186-192 / 238-244 for one img element, src already stripped
AddImage(image_urls, src) ==
    IF src = <<>> THEN image_urls
    ELSE IF InSeq(AbsoluteUrl(src), image_urls) THEN image_urls
         ELSE Append(image_urls, AbsoluteUrl(src))

\* the img loop over the first n elements of the cleaned document
RECURSIVE ImageLoop(_, _)
ImageLoop(soup, n) ==
    IF n = 0 THEN <<>>
    ELSE IF soup[n].tag = "img"
         THEN AddImage(ImageLoop(soup, n - 1), Strip(soup[n].src))
         ELSE ImageLoop(soup, n - 1)

ImageUrls(soup) == ImageLoop(soup, Len(soup))

extract_tables_and_images_for_display(html) ==
    [tables_md  |-> extract_tables_from_html(Decompose(html), MAX_TABLES),
     image_urls |-> ImageUrls(Decompose(html))]

HeadingTags == {"h1", "h2", "h3", "h4"}

TextTags == HeadingTags \cup {"p", "li"}

\* int(elem.name[1])
HeadingLevel(tag) ==
    CASE tag = "h1" -> 1 [] tag = "h2" -> 2 [] tag = "h3" -> 3 [] tag = "h4" -> 4

\* "#" * level
Hashes(level) == [k \in 1..level |-> "#"]

\* lines 218-228: the line of one element with text
FactLine(elem) ==
    IF elem.tag = "li" THEN <<"-", " ">> \o normalize_time_ranges(elem.text)
    ELSE IF elem.tag \in HeadingTags
         THEN Hashes(Min(HeadingLevel(elem.tag), 4)) \o <<" ">>
                 \o normalize_time_ranges(elem.text)
         ELSE normalize_time_ranges(elem.text)

\* lines 212-230
TextBlock(soup) ==
    LET elems == SelectSeq(soup, LAMBDA n : n.tag \in TextTags /\ n.text # <<>>)
    IN  Join([k \in 1..Len(elems) |-> FactLine(elems[k])], <<"\n">>)

\* lines 246-252
FactParts(text_block, tables_md, image_urls) ==
    (IF text_block # <<>> THEN << TEXT_HEADER \o <<"\n">> \o text_block >> ELSE <<>>)
    \o (IF tables_md # <<>> THEN << TABLES_HEADER \o <<"\n">> \o tables_md >> ELSE <<>>)
    \o (IF image_urls # <<>>
        THEN << IMAGES_HEADER \o <<"\n">> \o Join(image_urls, <<"\n">>) >> ELSE <<>>)

\* a slip: the empty result is returned as it is
JoinParts_NoPlaceholder(parts) == Join(parts, <<"\n", "\n">>)

\* lines 254-257
JoinParts(parts) ==
    IF parts = <<>> THEN NOTHING_FOUND ELSE Join(parts, <<"\n", "\n">>)

html_to_facts(html) ==
    JoinParts(FactParts(TextBlock(Decompose(html)),
                        extract_tables_from_html(Decompose(html), MAX_TABLES),
                        ImageUrls(Decompose(html))))

\* soup.find(tag): the first element with the tag, as a sequence of 0 or 1
FindFirst(html, tag) ==
    LET found == SelectSeq(html, LAMBDA n : n.tag = tag)
    IN  IF found = <<>> THEN <<>> ELSE <<found[1]>>

\* lines 71-73
TitleElementText(html) ==
    IF FindFirst(html, "title") # <<>> /\ FindFirst(html, "title")[1].text # <<>>
    THEN Strip(FindFirst(html, "title")[1].text)
    ELSE <<>>

\* lines 67-70 from the n-th of the tags h1, h2, h3 on
RECURSIVE TitleFrom(_, _)
TitleFrom(html, n) ==
    IF n > 3 THEN TitleElementText(html)
    ELSE IF FindFirst(html, <<"h1", "h2", "h3">>[n]) # <<>>
            /\ FindFirst(html, <<"h1", "h2", "h3">>[n])[1].text # <<>>
         THEN FindFirst(html, <<"h1", "h2", "h3">>[n])[1].text
         ELSE TitleFrom(html, n + 1)

extract_page_title(html) == TitleFrom(html, 1)

(***************************************************************************)
(* The extractor and the formatter applied to bounded documents.           *)
(***************************************************************************)
Elem(tag, hidden, text, rows, src) ==
    [tag |-> tag, hidden |-> hidden, text |-> text, rows |-> rows, src |-> src]

Cell(text, links) == [text |-> text, links |-> links]

MaxRows == 3

MaxCols == 3

MaxImgs == 3

\* cell contents: a word, nothing, two times run together, a text holding a
\* line break, a link with a root-relative address, a link without text or
\* address
CellFills ==
    { Cell(<<"a">>, <<>>),
      Cell(<<>>, <<>>),
      Cell(<<"1", ":", "0", "0", "1", "0", ":", "4", "0">>, <<>>),
      Cell(<<"a", "\n", "b">>, <<>>),
      Cell(<<>>, << [text |-> <<"b">>, href |-> <<"/", "n">>] >>),
      Cell(<<>>, << [text |-> <<>>, href |-> <<" ">>], [text |-> <<"c">>, href |-> <<>>] >>) }

\* a table whose r-th row has widths[r] cells, every cell filled alike
TableOf(widths, fill) ==
    Elem("table", FALSE, <<>>,
         [r \in 1..Len(widths) |-> [c \in 1..widths[r] |-> fill]], <<>>)

TableDocs ==
    UNION { { <<TableOf(w, fill)>> : w \in [1..n -> 0..MaxCols], fill \in CellFills }
            : n \in 0..MaxRows }

\* src attributes: missing, blank, root-relative (also with blanks around
\* it), the same address written in full, another site, protocol-relative
ImgSources ==
    { <<>>, <<" ">>, <<"/", "a">>, <<" ", "/", "a", " ">>,
      MUSEUM_BASE_URL \o <<"/", "a">>, <<"http://e", "/", "b">>, <<"/", "/", "c">> }

ImgElems ==
    { Elem("img", FALSE, <<>>, <<>>, s) : s \in ImgSources }
    \cup { Elem("img", TRUE, <<>>, <<>>, <<"/", "h">>) }

ImageDocs == UNION { [1..n -> ImgElems] : n \in 0..MaxImgs }

\* two tables, text around them
MixedDocs ==
    { << Elem("h1", FALSE, <<"t">>, <<>>, <<>>), TableOf(<<1, 2>>, fill),
         Elem("li", FALSE, <<"1", ":", "0", "0", " ", "1", ":", "0", "0">>, <<>>, <<>>),
         TableOf(<<w>>, fill), Elem("img", FALSE, <<>>, <<>>, <<"/", "a">>) >>
      : fill \in CellFills, w \in 0..MaxCols }

XInit ==
    /\ x_pc = "in"
    /\ x_html \in TableDocs \cup ImageDocs \cup MixedDocs
    /\ x_tables = <<>>
    /\ x_shown = [tables_md |-> <<>>, image_urls |-> <<>>]
    /\ x_facts = <<>>

XIdle ==
    /\ x_pc = "idle"
    /\ x_html = <<>>
    /\ x_tables = <<>>
    /\ x_shown = [tables_md |-> <<>>, image_urls |-> <<>>]
    /\ x_facts = <<>>

ExtractTables ==
    /\ x_pc = "in"
    /\ x_tables' = extract_tables_from_html(x_html, MAX_TABLES)
    /\ x_pc' = "tables"
    /\ UNCHANGED <<x_html, x_shown, x_facts>>

ExtractForDisplay ==
    /\ x_pc = "tables"
    /\ x_shown' = extract_tables_and_images_for_display(x_html)
    /\ x_pc' = "shown"
    /\ UNCHANGED <<x_html, x_tables, x_facts>>

HtmlToFacts ==
    /\ x_pc = "shown"
    /\ x_facts' = html_to_facts(x_html)
    /\ x_pc' = "done"
    /\ UNCHANGED <<x_html, x_tables, x_shown>>

(***************************************************************************)
(* 4. _fetch_page (utils.py 99-113, 263-336)                               *)
(*                                                                         *)
(* A text that may be HTML is [chars, html]: plain characters, or the      *)
(* elements found in it; both empty for "".  A JSON value is               *)
(*   [t, chars, html, items],  t: "str", "dict", "list", "other"           *)
(* (number, bool, null); items: the entries [k, v] of a dict in iteration  *)
(* order, or the elements of a list (k = "").                              *)
(***************************************************************************)
JStr(chars, html) == [t |-> "str", chars |-> chars, html |-> html, items |-> <<>>]

JDict(items) == [t |-> "dict", chars |-> <<>>, html |-> <<>>, items |-> items]

JList(vals) ==
    [t |-> "list", chars |-> <<>>, html |-> <<>>,
     items |-> [n \in 1..Len(vals) |-> [k |-> "", v |-> vals[n]]]]

JOther == [t |-> "other", chars |-> <<>>, html |-> <<>>, items |-> <<>>]

\* None
NoText == [t |-> "none", chars |-> <<>>, html |-> <<>>, items |-> <<>>]

\* "<table" in obj.lower()
HasTableTag(s) == \E n \in 1..Len(s.html) : s.html[n].tag = "table"

\* bool(s) of a text or None
Truthy(s) == s.t = "str" /\ (s.chars # <<>> \/ s.html # <<>>)

\* what BeautifulSoup(s, "lxml") finds: the elements, or the bare text as
\* one paragraph
Parse(s) ==
    IF s.html # <<>> THEN s.html
    ELSE IF Strip(s.chars) # <<>>
         THEN << [tag |-> "p", hidden |-> FALSE, text |-> Strip(s.chars),
                  rows |-> <<>>, src |-> <<>>] >>
         ELSE <<>>

RECURSIVE find_html_with_table(_)
\* the loops of lines 104-112 from entry n on
RECURSIVE FindInItems(_, _)
FindInItems(items, n) ==
    IF n > Len(items) THEN NoText
    ELSE IF Truthy(find_html_with_table(items[n].v))
         THEN find_html_with_table(items[n].v)
         ELSE FindInItems(items, n + 1)

\* a slip: only the value itself is looked at, not what it holds
find_html_with_table_Shallow(obj) ==
    IF obj.t = "str" /\ HasTableTag(obj) THEN obj ELSE NoText

find_html_with_table(obj) ==
    IF obj.t = "str" /\ HasTableTag(obj) THEN obj
    ELSE IF obj.t \in {"dict", "list"} THEN FindInItems(obj.items, 1)
         ELSE NoText

HasKey(data, k) == \E n \in 1..Len(data.items) : data.items[n].k = k

\* data[k] / data.get(k); None when the key is missing
Get(data, k) ==
    IF HasKey(data, k)
    THEN data.items[CHOOSE n \in 1..Len(data.items) : data.items[n].k = k].v
    ELSE NoText

\* lines 290-292
BoardHtml(data) ==
    IF Truthy(find_html_with_table(data)) THEN find_html_with_table(data)
    ELSE IF data.t = "dict" /\ Get(data, "content").t = "str" THEN Get(data, "content")
         ELSE NoText

\* lines 294-299 from the n-th of the keys on
RECURSIVE BoardTitleFrom(_, _)
BoardTitleFrom(data, n) ==
    IF n > 3 THEN <<>>
    ELSE IF Get(data, <<"title", "subject", "boardTitle">>[n]).t = "str"
         THEN Strip(Get(data, <<"title", "subject", "boardTitle">>[n]).chars)
         ELSE BoardTitleFrom(data, n + 1)

BoardTitle(data) == IF data.t = "dict" THEN BoardTitleFrom(data, 1) ELSE <<>>

\* "페이지 로드 실패"
LOAD_FAILED == <<"pe", "i_", "ji", " ", "ro", "deu", " ", "sil", "pae">>

\* a slip: the error record carries facts as well
ErrorRecord_WithFacts(url) ==
    [source |-> url, error |-> LOAD_FAILED, facts |-> NOTHING_FOUND]

\* line 336
ErrorRecord(url) == [source |-> url, error |-> LOAD_FAILED]

\* a slip: has_rich looks at the tables only
HasRich_TablesOnly(shown) == shown.tables_md # <<>>

\* lines 306 / 325: bool(tables_md or image_urls)
HasRich(shown) == shown.tables_md # <<>> \/ shown.image_urls # <<>>

\* lines 302-312 / 322-332
PageRecord(url, title, html) ==
    [source   |-> url,
     title    |-> title,
     facts    |-> html_to_facts(html),
     has_rich |-> HasRich(extract_tables_and_images_for_display(html))]

\* lines 301-312: the record built from the board's HTML
BoardRecord(url, data) ==
    PageRecord(url,
               IF BoardTitle(data) # <<>> THEN BoardTitle(data)
               ELSE extract_page_title(Parse(BoardHtml(data))),
               Parse(BoardHtml(data)))

\* re.search(r"/scipia/introduce/notice/(\d+)", url) matching at position i
NoticePrefix == <<"/", "scipia", "/", "introduce", "/", "notice", "/">>

NoticeMatchAt(url, i) == IsPrefixAt(NoticePrefix, url, i) /\ IsDigit(At(url, i + 7))

IsNoticeDetail(url) == \E i \in 1..Len(url) : NoticeMatchAt(url, i)

\* (\d+) from position i
RECURSIVE DigitRun(_, _)
DigitRun(s, i) == IF IsDigit(At(s, i)) THEN <<s[i]>> \o DigitRun(s, i + 1) ELSE <<>>

\* m.group(1) of the leftmost match
BoardId(url) ==
    DigitRun(url, 7 + CHOOSE i \in 1..Len(url) :
                          NoticeMatchAt(url, i) /\ \A j \in 1..(i - 1) : ~NoticeMatchAt(url, j))

\* line 280
ApiUrl(url) ==
    MUSEUM_BASE_URL \o <<"/", "scipia", "/", "boards", "/", "showBoard", "/">> \o BoardId(url)

(***************************************************************************)
(* _fetch_page run on bounded responses.                                   *)
(***************************************************************************)
MaxJsonDepth == 2

P_A == Elem("p", FALSE, <<"a">>, <<>>, <<>>)

T_1 == TableOf(<<1>>, Cell(<<"a">>, <<>>))

IMG_A == Elem("img", FALSE, <<>>, <<>>, <<"/", "a">>)

\* elements that yield nothing: a table inside nav, a table without rows, an
\* img without src, a paragraph without text, a title element
JunkElems ==
    << Elem("table", TRUE, <<>>, <<<<Cell(<<"a">>, <<>>)>>>>, <<>>),
       Elem("table", FALSE, <<>>, <<>>, <<>>),
       Elem("img", FALSE, <<>>, <<>>, <<>>),
       Elem("p", FALSE, <<>>, <<>>, <<>>),
       Elem("title", FALSE, <<" ", "t", " ">>, <<>>, <<>>) >>

PageOf(text, table, img, junk) ==
    (IF junk THEN JunkElems ELSE <<>>)
    \o (IF text THEN <<P_A>> ELSE <<>>)
    \o (IF table THEN <<T_1>> ELSE <<>>)
    \o (IF img THEN <<IMG_A>> ELSE <<>>)

\* the texts a GET returns
FetchPages ==
    { JStr(<<>>, PageOf(a, b, c, d)) : a, b, c, d \in BOOLEAN }
    \cup { JStr(<<" ">>, <<>>), JStr(<<"a">>, <<>>) }

JsonLeaves ==
    { JOther, JStr(<<>>, <<>>), JStr(<<"a">>, <<>>), JStr(<<>>, <<P_A>>),
      JStr(<<>>, <<T_1, IMG_A>>), JStr(<<>>, <<JunkElems[1]>>) }

RECURSIVE JsonValues(_)
JsonValues(depth) ==
    IF depth = 0 THEN JsonLeaves
    ELSE LET inner == JsonValues(depth - 1)
         IN  JsonLeaves
             \cup { JDict(<<>>) }
             \cup { JList(<<v>>) : v \in inner }
             \cup { JDict(<<[k |-> k, v |-> v]>>) : k \in {"content", "data"}, v \in inner }
             \cup { JDict(<<[k |-> "content", v |-> c], [k |-> "data", v |-> v]>>)
                    : c \in JsonLeaves, v \in inner }

BoardJson == JsonValues(MaxJsonDepth)

TitleKeys == <<"title", "subject", "boardTitle">>

\* what a title field may hold: a title, blanks, null; "" stands for a
\* missing field
TitleValues(n) ==
    { JStr(<<" ", <<"T", "S", "B">>[n], " ">>, <<>>), JStr(<<" ">>, <<>>), JOther }

\* the entry of the n-th title key, nothing when the field is missing
TitleEntry(n, v) == IF v = NoText THEN <<>> ELSE <<[k |-> TitleKeys[n], v |-> v]>>

\* the content of a titled answer: HTML with a heading and a table, a bare
\* text, null
TitledContents ==
    { JStr(<<>>, <<Elem("h2", FALSE, <<"h">>, <<>>, <<>>), T_1>>), JStr(<<"a">>, <<>>), JOther }

\* JSON objects with title fields and a content
TitledJson ==
    { JDict(TitleEntry(1, t) \o TitleEntry(2, s) \o TitleEntry(3, b)
               \o <<[k |-> "content", v |-> c]>>)
      : t \in TitleValues(1) \cup {NoText}, s \in TitleValues(2) \cup {NoText},
        b \in TitleValues(3) \cup {NoText}, c \in TitledContents }

\* what the board endpoint may answer
BoardAnswers == BoardJson \cup TitledJson

\* the notice list, the usage guide, a notice detail page
\* what the site answers to the requests of a chat run
ChatBoardAnswers ==
    { JOther,
      JDict(<<[k |-> "content", v |-> JStr(<<>>, <<Elem("h2", FALSE, <<"h">>, <<>>, <<>>), T_1>>)]>>) }

ChatPages ==
    { JStr(<<>>, PageOf(TRUE, FALSE, FALSE, FALSE)), JStr(<<>>, PageOf(TRUE, TRUE, TRUE, TRUE)) }

BoardAnswersNow == IF c_pc = "pages" THEN ChatBoardAnswers ELSE BoardAnswers

FetchPagesNow == IF c_pc = "pages" THEN ChatPages ELSE FetchPages

FetchUrls == { LIVE_PAGES[2].url, LIVE_PAGES[3].url, LIVE_PAGES[16].url }

PostFailures == {"timeout", "connection", "status", "not_json"}

GetFailures == {"timeout", "connection", "status"}

Request(method, url) == [method |-> method, url |-> url]

FInit ==
    /\ f_pc = "start"
    /\ f_url \in FetchUrls
    /\ f_calls = <<>>
    /\ f_outcome = "none"
    /\ f_data = NoText
    /\ f_body = NoText
    /\ f_result = <<>>

FIdle ==
    /\ f_pc = "idle"
    /\ f_url = <<>>
    /\ f_calls = <<>>
    /\ f_outcome = "none"
    /\ f_data = NoText
    /\ f_body = NoText
    /\ f_result = <<>>

\* lines 286-288 raise: the except clause returns the error record
PostFails ==
    /\ f_pc = "start"
    /\ IsNoticeDetail(f_url)
    /\ f_calls' = Append(f_calls, Request("POST", ApiUrl(f_url)))
    /\ f_outcome' \in PostFailures
    /\ f_result' = ErrorRecord(f_url)
    /\ f_pc' = "done"
    /\ UNCHANGED <<f_url, f_data, f_body>>

\* lines 286-312: the POST answers with JSON; its HTML is used when it has
\* some, otherwise the run goes on to the GET
PostAnswers ==
    /\ f_pc = "start"
    /\ IsNoticeDetail(f_url)
    /\ f_calls' = Append(f_calls, Request("POST", ApiUrl(f_url)))
    /\ f_outcome' = "ok"
    /\ f_data' \in BoardAnswersNow
    /\ IF Truthy(BoardHtml(f_data'))
       THEN /\ f_result' = BoardRecord(f_url, f_data')
            /\ f_pc' = "done"
       ELSE /\ f_result' = f_result
            /\ f_pc' = "get"
    /\ UNCHANGED <<f_url, f_body>>

GetDue == (f_pc = "start" /\ ~IsNoticeDetail(f_url)) \/ f_pc = "get"

\* lines 315-320 raise
GetFails ==
    /\ GetDue
    /\ f_calls' = Append(f_calls, Request("GET", f_url))
    /\ f_outcome' \in GetFailures
    /\ f_result' = ErrorRecord(f_url)
    /\ f_pc' = "done"
    /\ UNCHANGED <<f_url, f_data, f_body>>

\* lines 315-332
GetAnswers ==
    /\ GetDue
    /\ f_calls' = Append(f_calls, Request("GET", f_url))
    /\ f_outcome' = "ok"
    /\ f_body' \in FetchPagesNow
    /\ f_result' = PageRecord(f_url, extract_page_title(Parse(f_body')), Parse(f_body'))
    /\ f_pc' = "done"
    /\ UNCHANGED <<f_url, f_data>>

(***************************************************************************)
(* 5. run_chat_assistant (utils.py 421-491, 564-571, 604-609, 629-884)     *)
(*                                                                         *)
(* A Streamlit script run is started by one event: the page is loaded, a   *)
(* button is clicked, or a text is submitted in the chat input.  A widget  *)
(* is <<key>>, <<"topic_root", group>> or <<"topic_child", group, i>>.     *)
(* st.button returns True only in the run started by the click on that     *)
(* button, and only a button drawn by the previous run can be clicked;     *)
(* st.chat_input returns the text only in the run started by submitting    *)
(* it.  st.rerun() ends the run and starts one without an event.  An event *)
(* that arrives while a run is at work stops that run at its next          *)
(* Streamlit call and starts the run of the event.                         *)
(***************************************************************************)
TOPIC_TREE == <<
    [group |-> "guide",
     label |-> <<"gwan", "ram", " ", "i_", "yong", "an", "nae">>,
     children |-> <<
        [label |-> <<"i_", "yong", "an", "nae", " ", "jeon", "che">>,
         query |-> <<"i_", "yong", "an", "nae", "(", "gwan", "ram", "si", "gan", ",", " ", "yo", "geum", ",", " ", "hyu", "gwan", "il", ")", " ", "al", "ryeo", "jwo">>],
        [label |-> <<"gwan", "ram", "yo", "geum">>,
         query |-> <<"gwan", "ram", "yo", "geum", " ", "al", "ryeo", "jwo">>],
        [label |-> <<"hyu", "gwan", "il", "/", "un", "yeong", "il">>,
         query |-> <<"hyu", "gwan", "il", "/", "un", "yeong", "il", " ", "al", "ryeo", "jwo">>],
        [label |-> <<"yeon", "gan", "hoe", "won">>,
         query |-> <<"yeon", "gan", "hoe", "won", " ", "an", "nae", "hae", "jwo">>],
        [label |-> <<"ju", "cha", "an", "nae">>,
         query |-> <<"ju", "cha", "an", "nae", " ", "al", "ryeo", "jwo">>],
        [label |-> <<"gyo", "tong", "an", "nae">>,
         query |-> <<"gyo", "tong", "an", "nae", " ", "al", "ryeo", "jwo">>]
     >>],
    [group |-> "astro_program",
     label |-> <<"cheon", "mun", "u_", "ju", "si", "seol">>,
     children |-> <<
        [label |-> <<"cheon", "che", "tu", "yeong", "gwan", " ", "peu", "ro", "geu", "raem">>,
         query |-> <<"cheon", "che", "tu", "yeong", "gwan", " ", "peu", "ro", "geu", "raem", " ", "al", "ryeo", "jwo">>],
        [label |-> <<"cheon", "che", "tu", "yeong", "gwan", " ", "dan", "che">>,
         query |-> <<"cheon", "che", "tu", "yeong", "gwan", " ", "dan", "che", " ", "peu", "ro", "geu", "raem", " ", "an", "nae", "hae", "jwo">>],
        [label |-> <<"cheon", "mun", "dae", " ", "peu", "ro", "geu", "raem">>,
         query |-> <<"cheon", "mun", "dae", " ", "peu", "ro", "geu", "raem", " ", "al", "ryeo", "jwo">>],
        [label |-> <<"cheon", "mun", "dae", " ", "dan", "che">>,
         query |-> <<"cheon", "mun", "dae", " ", "dan", "che", " ", "peu", "ro", "geu", "raem", " ", "an", "nae", "hae", "jwo">>],
        [label |-> <<"seu", "pe", "i_", "seu", " ", "a_", "nal", "ro", "geu", " ", "peu", "ro", "geu", "raem">>,
         query |-> <<"seu", "pe", "i_", "seu", " ", "a_", "nal", "ro", "geu", " ", "peu", "ro", "geu", "raem", " ", "al", "ryeo", "jwo">>],
        [label |-> <<"seu", "pe", "i_", "seu", " ", "a_", "nal", "ro", "geu", " ", "dan", "che">>,
         query |-> <<"seu", "pe", "i_", "seu", " ", "a_", "nal", "ro", "geu", " ", "peu", "ro", "geu", "raem", " ", "al", "ryeo", "jwo">>]
     >>],
    [group |-> "exhibition",
     label |-> <<"sang", "seol", "jeon", "si", "gwan">>,
     children |-> <<
        [label |-> <<"ja", "yeon", "sa", "gwan">>,
         query |-> <<"ja", "yeon", "sa", "gwan", " ", "an", "nae", "hae", "jwo">>],
        [label |-> <<"cheom", "dan", "gi", "sul", "gwan">>,
         query |-> <<"cheom", "dan", "gi", "sul", "gwan", " ", "an", "nae", "hae", "jwo">>],
        [label |-> <<"gwa", "hag", "tam", "gu", "gwan">>,
         query |-> <<"gwa", "hag", "tam", "gu", "gwan", " ", "an", "nae", "hae", "jwo">>],
        [label |-> <<"han", "gug", "mun", "myeong", "gwan">>,
         query |-> <<"han", "gug", "mun", "myeong", "gwan", " ", "an", "nae", "hae", "jwo">>],
        [label |-> <<"mi", "rae", "sang", "sang", "S", "F", "gwan">>,
         query |-> <<"mi", "rae", "sang", "sang", "S", "F", "gwan", " ", "an", "nae", "hae", "jwo">>],
        [label |-> <<"yu", "a_", "che", "heom", "gwan">>,
         query |-> <<"yu", "a_", "che", "heom", "gwan", " ", "an", "nae", "hae", "jwo">>],
        [label |-> <<"myeong", "ye", "ui", "jeon", "dang">>,
         query |-> <<"myeong", "ye", "ui", " ", "jeon", "dang", " ", "an", "nae", "hae", "jwo">>],
        [label |-> <<"teug", "byeol", "gi", "hoeg", "jeon">>,
         query |-> <<"teug", "byeol", "gi", "hoeg", "jeon", " ", "an", "nae", "hae", "jwo">>]
     >>],
    [group |-> "group_program",
     label |-> <<"dan", "che", "U+00B7", "jeon", "si", "yeon", "gye", " ", "peu", "ro", "geu", "raem">>,
     children |-> <<
        [label |-> <<"dan", "che", "gwan", "ram">>,
         query |-> <<"dan", "che", "gwan", "ram", " ", "an", "nae", "hae", "jwo">>],
        [label |-> <<"jeon", "si", "hae", "seol">>,
         query |-> <<"jeon", "si", "hae", "seol", " ", "peu", "ro", "geu", "raem", " ", "an", "nae", "hae", "jwo">>],
        [label |-> <<"che", "heom", "jeon", "si", "mul", " ", "ye", "yag">>,
         query |-> <<"che", "heom", "jeon", "si", "mul", " ", "ye", "yag", " ", "an", "nae", "hae", "jwo">>]
     >>],
    [group |-> "outdoor",
     label |-> <<"ya", "oe", "jeon", "si", "U+00B7", "saeng", "tae">>,
     children |-> <<
        [label |-> <<"gon", "chung", "saeng", "tae", "gwan">>,
         query |-> <<"gon", "chung", "saeng", "tae", "gwan", " ", "an", "nae", "hae", "jwo">>],
        [label |-> <<"gong", "ryong", "gong", "won">>,
         query |-> <<"gong", "ryong", "gong", "won", " ", "an", "nae", "hae", "jwo">>],
        [label |-> <<"saeng", "tae", "gong", "won">>,
         query |-> <<"saeng", "tae", "gong", "won", " ", "an", "nae", "hae", "jwo">>],
        [label |-> <<"og", "oe", "jeon", "si", "jang">>,
         query |-> <<"og", "oe", "jeon", "si", "jang", " ", "an", "nae", "hae", "jwo">>]
     >>],
    [group |-> "facility",
     label |-> <<"pyeon", "ui", "si", "seol", "U+00B7", "sig", "eum", "U+00B7", "gyo", "tong">>,
     children |-> <<
        [label |-> <<"sig", "eum", "si", "seol">>,
         query |-> <<"sig", "eum", "si", "seol", "(", "ka", "pe", "U+00B7", "sig", "dang", ")", " ", "an", "nae", "hae", "jwo">>],
        [label |-> <<"pyeon", "ui", "si", "seol">>,
         query |-> <<"pyeon", "ui", "si", "seol", " ", "an", "nae", "hae", "jwo">>],
        [label |-> <<"ju", "cha", "an", "nae">>,
         query |-> <<"ju", "cha", "an", "nae", " ", "al", "ryeo", "jwo">>],
        [label |-> <<"gyo", "tong", "an", "nae">>,
         query |-> <<"gyo", "tong", "an", "nae", " ", "al", "ryeo", "jwo">>]
     >>],
    [group |-> "etc",
     label |-> <<"F", "A", "Q", "U+00B7", "gong", "ji", "U+00B7", "gi", "ta">>,
     children |-> <<
        [label |-> <<"ja", "ju", "mud", "neun", "jil", "mun">>,
         query |-> <<"ja", "ju", " ", "mud", "neun", " ", "jil", "mun", " ", "al", "ryeo", "jwo">>],
        [label |-> <<"gong", "ji", "sa", "hang">>,
         query |-> <<"gong", "ji", "sa", "hang", " ", "an", "nae", "hae", "jwo">>],
        [label |-> <<"gwa", "hag", "ja", "ryo", "sil">>,
         query |-> <<"gwa", "hag", "ja", "ryo", "sil", " ", "an", "nae", "hae", "jwo">>]
     >>]
>>

\* "[섹션: "
SECTION_OPEN ==
    <<"[", "seg", "syeon", ":", " ">>

\* the text of a section without facts, up to the link
NOT_LOADED ==
    <<"i_", " ", "pe", "i_", "ji", "neun", " ", "ja", "dong", "eu", "ro",
      " ", "nae", "yong", "eul", " ", "bul", "reo", "o_", "ji", " ", "mos",
      "haess", "seub", "ni", "da", ".", " ", "a_", "rae", " ", "ring", "keu",
      "reul", " ", "nul", "reo", " ", "hom", "pe", "i_", "ji", "e_", "seo",
      " ", "jig", "jeob", " ", "hwag", "in", "hae", " ", "ju", "se", "yo",
      ".", " ", "(">>

SECTION_RULE ==
    <<"\n", "\n", "-", "-", "-", "-", "-", "-", "-", "-", "-", "-", "-", "-",
      "-", "-", "-", "-", "\n", "\n">>

\* body_lines up to the first link
GUIDANCE_HEAD ==
    <<"#", "#", "#", " ", "hom", "pe", "i_", "ji", "e_", "seo", " ", "jig",
      "jeob", " ", "hwag", "in", "i_", " ", "pil", "yo", "han", " ", "nae",
      "yong", "ib", "ni", "da", ".", "\n", "\n", "-", " ", "jil", "mun",
      "gwa", " ", "jeong", "hwag", "hi", " ", "yeon", "gyeol", "doe", "neun",
      " ", "jeong", "bo", "reul", " ", "ja", "dong", "eu", "ro", " ", "chaj",
      "gi", " ", "eo", "ryeob", "seub", "ni", "da", ".", "\n", "-", " ",
      "jil", "mun", "eul", " ", "jo", "geum", " ", "deo", " ", "gu", "che",
      "jeog", "eu", "ro", ",", " ", "tto", "neun", " ", "da", "reun", " ",
      "pyo", "hyeon", "eu", "ro", " ", "da", "si", " ", "ib", "ryeog", "hae",
      " ", "ju", "se", "yo", " ", "U+1F60A", "\n", "\n", "-", " ", "[", "i_",
      "yong", "an", "nae", " ", "me", "in", "]", "(">>

\* from the first link to the second
GUIDANCE_MENU ==
    <<")", "\n", "-", " ", "[", "jeon", "che", " ", "me", "nyu", " ", "han",
      "nun", "e_", " ", "bo", "gi", "]", "(">>

LLM_ERROR ==
    <<"U+26A0", "U+FE0F", " ", "eung", "dab", " ", "saeng", "seong", " ",
      "jung", " ", "o_", "ryu", " ", "bal", "saeng", ":", " ">>

RICH_NOTICE ==
    <<"\n", "\n", ">", " ", "U+2139", "U+FE0F", " ", "*", "*", "deo", "ug",
      " ", "ja", "se", "han", " ", "an", "nae", "reul", " ", "won", "ha",
      "sin", "da", "myeon", "?", "*", "*", " ", " ", "\n", ">", " ", "hom",
      "pe", "i_", "ji", "reul", " ", "ham", "kke", " ", "hwag", "in", "hae",
      "ju", "se", "yo", "!", "\n">>

\* the markup of the link button before and after the address
LINK_OPEN == <<"\n", "<a href=\"">>

LINK_CLOSE == <<"\" target=\"_blank\" style=...><button style=...>homepage</button></a>", "\n">>

\* the e of line 854
LLM_EXCEPTION == <<"e">>

\* "/scipia/introduce/siteMap"
SITE_MAP_PATH == <<"/", "scipia", "/", "introduce", "/", "siteMap">>

\* None of topic_group
NoGroup == "None"

\* LIVE_PAGES[key]
UrlOf(key) == LIVE_PAGES[CHOOSE n \in 1..Len(LIVE_PAGES) : LIVE_PAGES[n].key = key].url

\* _search_site: the indexer is gone, nothing is found
search_site(query, limit) == <<>>

\* _append_info_footer: the answer as it is
append_info_footer(answer) == answer

(***************************************************************************)
(* _cleanup_answer_markdown                                                *)
(***************************************************************************)
\* (\d{1,2}:\d{2})\s*~~\s*(\d{1,2}:\d{2}) tried at position i: where the
\* second time starts, 0 without a match
TildeRangeAt(s, i) ==
    IF /\ TimeTokenLen(s, i) > 0
       /\ IsPrefixAt(<<"~", "~">>, s, SkipSpaces(s, i + TimeTokenLen(s, i)))
       /\ TimeTokenLen(s, SkipSpaces(s, SkipSpaces(s, i + TimeTokenLen(s, i)) + 2)) > 0
    THEN SkipSpaces(s, SkipSpaces(s, i + TimeTokenLen(s, i)) + 2)
    ELSE 0

\* the first re.sub of the function, from position i on
RECURSIVE TildeRangeSub(_, _)
TildeRangeSub(s, i) ==
    IF i > Len(s) THEN <<>>
    ELSE IF TildeRangeAt(s, i) > 0
         THEN SubSeq(s, i, i + TimeTokenLen(s, i) - 1) \o <<"~">>
                 \o SubSeq(s, TildeRangeAt(s, i),
                           TildeRangeAt(s, i) + TimeTokenLen(s, TildeRangeAt(s, i)) - 1)
                 \o TildeRangeSub(s, TildeRangeAt(s, i) + TimeTokenLen(s, TildeRangeAt(s, i)))
         ELSE <<s[i]>> \o TildeRangeSub(s, i + 1)

\* the length of the run of characters other than '~' from position i
RECURSIVE PlainRun(_, _)
PlainRun(s, i) == IF i <= Len(s) /\ s[i] # "~" THEN 1 + PlainRun(s, i + 1) ELSE 0

\* ~~([^~]+?)~~ tried at position i
StrikeAt(s, i) ==
    /\ IsPrefixAt(<<"~", "~">>, s, i)
    /\ PlainRun(s, i + 2) > 0
    /\ IsPrefixAt(<<"~", "~">>, s, i + 2 + PlainRun(s, i + 2))

\* the second re.sub of the function, from position i on
RECURSIVE StrikeSub(_, _)
StrikeSub(s, i) ==
    IF i > Len(s) THEN <<>>
    ELSE IF StrikeAt(s, i)
         THEN SubSeq(s, i + 2, i + 1 + PlainRun(s, i + 2))
                 \o StrikeSub(s, i + 4 + PlainRun(s, i + 2))
         ELSE <<s[i]>> \o StrikeSub(s, i + 1)

cleanup_answer_markdown(answer) == StrikeSub(TildeRangeSub(answer, 1), 1)

(***************************************************************************)
(* the page loop, lines 750-769                                            *)
(***************************************************************************)
\* page_data.get("source", url)
PageSource(page_data, url) ==
    IF "source" \in DOMAIN page_data THEN page_data.source ELSE url

\* page_data.get("title") or key
PageTitle(page_data, key) ==
    IF "title" \in DOMAIN page_data /\ page_data.title # <<>> THEN page_data.title ELSE key

\* page_data.get("has_rich")
PageRich(page_data) == "has_rich" \in DOMAIN page_data /\ page_data.has_rich

\* a slip: a page that was not loaded gives an empty section
PageSection_EmptyOnError(page_data, title, src) ==
    IF "facts" \in DOMAIN page_data
    THEN SECTION_OPEN \o title \o <<"]", "\n">> \o page_data.facts
    ELSE <<>>

\* lines 761-768
PageSection(page_data, title, src) ==
    IF "facts" \in DOMAIN page_data
    THEN SECTION_OPEN \o title \o <<"]", "\n">> \o page_data.facts
    ELSE SECTION_OPEN \o title \o <<"]", "\n">> \o NOT_LOADED \o src \o <<")">>

\* line 756
LinkItem(title, src) == [title |-> title, url |-> src]

\* line 802
FactsText(facts_sections) == Strip(Join(facts_sections, SECTION_RULE))

\* a slip: the labels are taken from the end of the list
NextKey_Reversed(matched_keys, done) == matched_keys[Len(matched_keys) - done]

\* the label the loop of line 750 takes after `done` labels
NextKey(matched_keys, done) == matched_keys[done + 1]

(***************************************************************************)
(* the replies, lines 804-820 and 848-884                                  *)
(***************************************************************************)
\* lines 805-815
GuidanceMessage ==
    append_info_footer(GUIDANCE_HEAD \o UrlOf(USAGE_GUIDE) \o GUIDANCE_MENU
                          \o MUSEUM_BASE_URL \o SITE_MAP_PATH \o <<")">>)

\* lines 850-854: the answer of the model, or the error text when it raised
AnswerText(outcome) == IF outcome.ok THEN outcome.content ELSE LLM_ERROR \o LLM_EXCEPTION

\* lines 868-877
LinksMd(link_items) ==
    IF link_items # <<>> THEN LINK_OPEN \o link_items[1].url \o LINK_CLOSE ELSE <<>>

\* lines 857-880
FinalAnswer(answer_text, has_rich_content, link_items) ==
    append_info_footer(cleanup_answer_markdown(answer_text)
                          \o (IF has_rich_content THEN RICH_NOTICE ELSE <<>>)
                          \o <<"\n", "\n">> \o LinksMd(link_items))

\* HumanMessage(content=...) / AIMessage(content=...)
Message(role, content) == [role |-> role, content |-> content]

\* a slip: the reply is shown but not kept
AppendReply_Dropped(messages, answer) == messages

\* lines 819 / 884
AppendReply(messages, answer) == Append(messages, Message("assistant", answer))

\* lines 730-736: the text the run works on, <<>> when there is none
UserMsg(pending, user_input) == IF pending # <<>> THEN pending ELSE user_input

(***************************************************************************)
(* _render_topic_shortcuts, _render_global_back_button                     *)
(***************************************************************************)
GroupIdx(group) == { n \in 1..Len(TOPIC_TREE) : TOPIC_TREE[n].group = group }

\* TOPIC_TREE[group]
Topic(group) == TOPIC_TREE[CHOOSE n \in GroupIdx(group) : TRUE]

RootButtons == { <<"topic_root", TOPIC_TREE[n].group>> : n \in 1..Len(TOPIC_TREE) }

ChildButtons(group) ==
    { <<"topic_child", group, i>> : i \in 1..Len(Topic(group).children) }

TOPIC_BACK == <<"topic_back_root">>

GLOBAL_BACK == <<"global_back_to_topics">>

CHAT_INPUT == <<"chat_input">>

\* the buttons _render_topic_shortcuts draws
Shortcuts(stage, group) ==
    IF stage = "root" \/ GroupIdx(group) = {} THEN RootButtons
    ELSE ChildButtons(group) \cup {TOPIC_BACK}

\* the widgets of a run that gets past _init_llm
Drawn(stage, group) == Shortcuts(stage, group) \cup {CHAT_INPUT}

(***************************************************************************)
(* The chat screen: one action per event that starts a run, and the steps  *)
(* of a run that works on a question.                                      *)
(***************************************************************************)
\* how many buttons of a row the user gets to click, from the left
MaxButton == 2

\* how many messages the history gets to hold
MaxMessages == 3

\* what the user types: a greeting, two labels
TypedQueries ==
    { <<"an", "nyeong">>,
      <<"ju", "cha", "an", "nae", " ", "cheon", "mun", "dae", " ", "peu", "ro", "geu", "raem">> }

\* what llm.invoke does: an answer with struck-through text, or an exception
LlmOutcomes ==
    { [ok |-> TRUE,
       content |-> <<"1", "0", ":", "0", "0", " ", "~", "~", " ", "1", "7", ":", "0", "0",
                     " ", "~", "~", "hyu", "gwan", "~", "~">>],
      [ok |-> FALSE, content |-> <<>>] }

CIdle ==
    /\ s_key = FALSE
    /\ s_stage = "root"
    /\ s_group = NoGroup
    /\ s_pending = <<>>
    /\ s_messages = <<>>
    /\ s_page = {}
    /\ c_pc = "idle"
    /\ c_trigger = <<>>
    /\ c_user_msg = <<>>
    /\ c_matched = <<>>
    /\ c_sections = <<>>
    /\ c_links = <<>>
    /\ c_rich = FALSE
    /\ c_fetched = <<>>
    /\ c_llm = 0
    /\ c_end = "return"

\* the state after the run that loads the page: lines 693-701 set the
\* defaults; without an API key the run ends at line 708 with nothing drawn
CInit ==
    /\ s_key \in BOOLEAN
    /\ s_stage = "root"
    /\ s_group = NoGroup
    /\ s_pending = <<>>
    /\ s_messages = <<>>
    /\ s_page = IF s_key THEN Drawn("root", NoGroup) ELSE {}
    /\ c_pc = "idle"
    /\ c_trigger = <<>>
    /\ c_user_msg = <<>>
    /\ c_matched = <<>>
    /\ c_sections = <<>>
    /\ c_links = <<>>
    /\ c_rich = FALSE
    /\ c_fetched = <<>>
    /\ c_llm = 0
    /\ c_end = "return"

\* lines 727-741 without a question: the run ends at line 736
RunWithout(trigger, stage, group) ==
    /\ s_stage' = stage
    /\ s_group' = group
    /\ s_pending' = <<>>
    /\ s_page' = Drawn(stage, group)
    /\ c_trigger' = trigger
    /\ c_user_msg' = <<>>
    /\ c_matched' = <<>>
    /\ c_fetched' = <<>>
    /\ c_llm' = 0
    /\ c_end' = "return"
    /\ UNCHANGED <<s_key, s_messages, c_pc, c_sections, c_links, c_rich, fVars>>

\* lines 727-749 with a question: pending_query is emptied, the question is
\* put into the history and matched
RunWith(trigger, user_msg) ==
    /\ Len(s_messages) + 2 <= MaxMessages
    /\ s_pending' = <<>>
    /\ s_messages' = Append(s_messages, Message("user", user_msg))
    /\ s_page' = Drawn(s_stage, s_group)
    /\ c_pc' = "pages"
    /\ c_trigger' = trigger
    /\ c_user_msg' = user_msg
    /\ c_matched' = match_live_keys(user_msg).matched
    /\ c_sections' = <<>>
    /\ c_links' = <<>>
    /\ c_rich' = FALSE
    /\ c_fetched' = <<>>
    /\ c_llm' = 0
    /\ c_end' = "running"
    /\ UNCHANGED <<s_key, s_stage, s_group, fVars>>

\* the user asks for a rerun: a run without a widget event
Rerun ==
    /\ c_pc = "idle"
    /\ IF s_key
       THEN IF s_pending # <<>>
            THEN RunWith(<<>>, UserMsg(s_pending, <<>>))
            ELSE RunWithout(<<>>, s_stage, s_group)
       ELSE UNCHANGED vars

\* lines 636-642: a button of the first row; the rerun draws the second row
ClickTopic(group) ==
    /\ c_pc = "idle"
    /\ <<"topic_root", group>> \in s_page
    /\ \E n \in 1..MaxButton : n \in GroupIdx(group)
    /\ s_pending = <<>>
    /\ RunWithout(<<"topic_root", group>>, "mid", group)

\* lines 651-656 and 730-732: a button of the second row stores its question
\* and the same run takes it
ClickChild(group, i) ==
    /\ c_pc = "idle"
    /\ <<"topic_child", group, i>> \in s_page
    /\ i <= MaxButton
    /\ RunWith(<<"topic_child", group, i>>, UserMsg(Topic(group).children[i].query, <<>>))

\* lines 659-663
ClickTopicBack ==
    /\ c_pc = "idle"
    /\ TOPIC_BACK \in s_page
    /\ RunWithout(TOPIC_BACK, "root", NoGroup)

\* the button of lines 818 / 883: the run its click starts has no question
\* and ends at line 736, before the line that draws the button
ClickGlobalBack ==
    /\ c_pc = "idle"
    /\ GLOBAL_BACK \in s_page
    /\ IF s_pending # <<>>
       THEN RunWith(GLOBAL_BACK, UserMsg(s_pending, <<>>))
       ELSE RunWithout(GLOBAL_BACK, s_stage, s_group)

\* line 727 returns the text
Submit(text) ==
    /\ c_pc = "idle"
    /\ CHAT_INPUT \in s_page
    /\ RunWith(CHAT_INPUT, UserMsg(s_pending, text))

\* lines 750-752: the next label's page is asked for
StartFetch ==
    /\ c_pc = "pages"
    /\ f_pc = "idle"
    /\ Len(c_fetched) < Len(c_matched)
    /\ f_pc' = "start"
    /\ f_url' = UrlOf(NextKey(c_matched, Len(c_fetched)))
    /\ UNCHANGED <<f_calls, f_outcome, f_data, f_body, f_result, sVars, cVars>>

\* lines 753-769 with the record _fetch_page returned
TakePage ==
    /\ c_pc = "pages"
    /\ f_pc = "done"
    /\ c_links' = Append(c_links,
                         LinkItem(PageTitle(f_result, NextKey(c_matched, Len(c_fetched))),
                                  PageSource(f_result, f_url)))
    /\ c_rich' = (c_rich \/ PageRich(f_result))
    /\ c_sections' = Append(c_sections,
                            PageSection(f_result,
                                        PageTitle(f_result, NextKey(c_matched, Len(c_fetched))),
                                        PageSource(f_result, f_url)))
    /\ c_fetched' = Append(c_fetched,
                           [key    |-> NextKey(c_matched, Len(c_fetched)),
                            url    |-> f_url,
                            calls  |-> f_calls,
                            failed |-> "error" \in DOMAIN f_result])
    /\ f_pc' = "idle"
    /\ f_url' = <<>>
    /\ f_calls' = <<>>
    /\ f_outcome' = "none"
    /\ f_data' = NoText
    /\ f_body' = NoText
    /\ f_result' = <<>>
    /\ UNCHANGED <<sVars, c_pc, c_trigger, c_user_msg, c_matched, c_llm, c_end>>

\* the loops of lines 750 and 773 are through
PagesDone == c_pc = "pages" /\ f_pc = "idle" /\ Len(c_fetched) = Len(c_matched)

\* lines 804-820: no facts, the guidance is the reply
Guide ==
    /\ PagesDone
    /\ FactsText(c_sections \o search_site(c_user_msg, 5)) = <<>>
    /\ s_messages' = AppendReply(s_messages, GuidanceMessage)
    /\ s_page' = s_page \cup {GLOBAL_BACK}
    /\ c_pc' = "idle"
    /\ c_sections' = <<>>
    /\ c_links' = <<>>
    /\ c_rich' = FALSE
    /\ c_end' = "guide"
    /\ UNCHANGED <<s_key, s_stage, s_group, s_pending, c_trigger, c_user_msg, c_matched,
                   c_fetched, c_llm, fVars>>

\* lines 822-884: the model is called and its answer is the reply
Answer(outcome) ==
    /\ PagesDone
    /\ FactsText(c_sections \o search_site(c_user_msg, 5)) # <<>>
    /\ c_llm' = c_llm + 1
    /\ s_messages' = AppendReply(s_messages, FinalAnswer(AnswerText(outcome), c_rich, c_links))
    /\ s_page' = s_page \cup {GLOBAL_BACK}
    /\ c_pc' = "idle"
    /\ c_sections' = <<>>
    /\ c_links' = <<>>
    /\ c_rich' = FALSE
    /\ c_end' = "answer"
    /\ UNCHANGED <<s_key, s_stage, s_group, s_pending, c_trigger, c_user_msg, c_matched,
                   c_fetched, fVars>>

\* an event arrives while the run is at work on the pages or waits for the
\* model: the run is stopped at its next Streamlit call (line 816 or 847),
\* before the reply is kept, and its locals are gone; the run of the event
\* follows
Interrupt ==
    /\ c_pc = "pages"
    /\ c_pc' = "idle"
    /\ c_end' = "stopped"
    /\ c_sections' = <<>>
    /\ c_links' = <<>>
    /\ c_rich' = FALSE
    /\ f_pc' = "idle"
    /\ f_url' = <<>>
    /\ f_calls' = <<>>
    /\ f_outcome' = "none"
    /\ f_data' = NoText
    /\ f_body' = NoText
    /\ f_result' = <<>>
    /\ c_user_msg' = <<>>
    /\ c_matched' = <<>>
    /\ c_fetched' = <<>>
    /\ c_llm' = 0
    /\ UNCHANGED <<sVars, c_trigger>>

(***************************************************************************)
(* Specifications: each operation run on its bounded inputs, the other     *)
(* parts idle.                                                             *)
(***************************************************************************)
InitNormalize == NTInit /\ MIdle /\ GIdle /\ XIdle /\ FIdle /\ CIdle

NextNormalize ==
    \/ Normalize /\ UNCHANGED <<mVars, gVars, xVars, fVars, sVars, cVars>>
    \/ NormalizeAgain /\ UNCHANGED <<mVars, gVars, xVars, fVars, sVars, cVars>>

SpecNormalize == InitNormalize /\ [][NextNormalize]_vars

InitMatch == MInit /\ NTIdle /\ GIdle /\ XIdle /\ FIdle /\ CIdle

NextMatch == Match /\ UNCHANGED <<ntVars, gVars, xVars, fVars, sVars, cVars>>

SpecMatch == InitMatch /\ [][NextMatch]_vars

InitGuess == GInit /\ NTIdle /\ MIdle /\ XIdle /\ FIdle /\ CIdle

NextGuess == Guess /\ UNCHANGED <<ntVars, mVars, xVars, fVars, sVars, cVars>>

SpecGuess == InitGuess /\ [][NextGuess]_vars

InitExtract == XInit /\ NTIdle /\ MIdle /\ GIdle /\ FIdle /\ CIdle

NextExtract ==
    \/ ExtractTables /\ UNCHANGED <<ntVars, mVars, gVars, fVars, sVars, cVars>>
    \/ ExtractForDisplay /\ UNCHANGED <<ntVars, mVars, gVars, fVars, sVars, cVars>>
    \/ HtmlToFacts /\ UNCHANGED <<ntVars, mVars, gVars, fVars, sVars, cVars>>

SpecExtract == InitExtract /\ [][NextExtract]_vars

InitFetch == FInit /\ NTIdle /\ MIdle /\ GIdle /\ XIdle /\ CIdle

NextFetch ==
    \/ PostFails /\ UNCHANGED <<ntVars, mVars, gVars, xVars, sVars, cVars>>
    \/ PostAnswers /\ UNCHANGED <<ntVars, mVars, gVars, xVars, sVars, cVars>>
    \/ GetFails /\ UNCHANGED <<ntVars, mVars, gVars, xVars, sVars, cVars>>
    \/ GetAnswers /\ UNCHANGED <<ntVars, mVars, gVars, xVars, sVars, cVars>>

SpecFetch == InitFetch /\ [][NextFetch]_vars


InitChat == CInit /\ NTIdle /\ MIdle /\ GIdle /\ XIdle /\ FIdle

NextChat ==
    \/ Rerun /\ UNCHANGED <<ntVars, mVars, gVars, xVars>>
    \/ (\E n \in 1..Len(TOPIC_TREE) : ClickTopic(TOPIC_TREE[n].group))
          /\ UNCHANGED <<ntVars, mVars, gVars, xVars>>
    \/ (\E n \in 1..Len(TOPIC_TREE) : \E i \in 1..MaxButton :
            ClickChild(TOPIC_TREE[n].group, i))
          /\ UNCHANGED <<ntVars, mVars, gVars, xVars>>
    \/ ClickTopicBack /\ UNCHANGED <<ntVars, mVars, gVars, xVars>>
    \/ ClickGlobalBack /\ UNCHANGED <<ntVars, mVars, gVars, xVars>>
    \/ (\E text \in TypedQueries : Submit(text)) /\ UNCHANGED <<ntVars, mVars, gVars, xVars>>
    \/ StartFetch /\ UNCHANGED <<ntVars, mVars, gVars, xVars>>
    \/ PostFails /\ UNCHANGED <<ntVars, mVars, gVars, xVars, sVars, cVars>>
    \/ PostAnswers /\ UNCHANGED <<ntVars, mVars, gVars, xVars, sVars, cVars>>
    \/ GetFails /\ UNCHANGED <<ntVars, mVars, gVars, xVars, sVars, cVars>>
    \/ GetAnswers /\ UNCHANGED <<ntVars, mVars, gVars, xVars, sVars, cVars>>
    \/ TakePage /\ UNCHANGED <<ntVars, mVars, gVars, xVars>>
    \/ Guide /\ UNCHANGED <<ntVars, mVars, gVars, xVars>>
    \/ Interrupt /\ UNCHANGED <<ntVars, mVars, gVars, xVars>>
    \/ (\E outcome \in LlmOutcomes : Answer(outcome)) /\ UNCHANGED <<ntVars, mVars, gVars, xVars>>

SpecChat == InitChat /\ [][NextChat]_vars
(***************************************************************************)
(* C1                                                                      *)
(***************************************************************************)
\* two clock-time tokens directly adjacent at position i
AdjacentTimes(s, i) ==
    TimeTokenLen(s, i) > 0 /\ TimeTokenLen(s, i + TimeTokenLen(s, i)) > 0

FirstTime(s, i) == SubSeq(s, i, i + TimeTokenLen(s, i) - 1)

SecondTime(s, i) ==
    LET j == i + TimeTokenLen(s, i) IN SubSeq(s, j, j + TimeTokenLen(s, j) - 1)

\* position i lies inside a range that starts before it
InsideEarlierRange(s, i) ==
    \E sp \in MatchSpans(s) : sp[1] < i /\ i < sp[2]

\* s without the characters the normalizer may add or drop between times
RECURSIVE EraseGlue(_)
EraseGlue(s) ==
    IF s = <<>> THEN <<>>
    ELSE IF Head(s) = "~" \/ IsSpace(Head(s)) THEN EraseGlue(Tail(s))
         ELSE <<Head(s)>> \o EraseGlue(Tail(s))

\* C1 as stated: whenever two clock-time tokens are directly adjacent in the
\* text, the output holds, where the text before them ends, the first
\* token, exactly one '~', then the second; and normalizing the output again
\* changes nothing.
C1_Original ==
    /\ nt_pc # "in" =>
         \A i \in 1..Len(nt_text) :
            AdjacentTimes(nt_text, i) =>
               \E p \in 1..Len(nt_out) :
                  /\ IsPrefixAt(FirstTime(nt_text, i) \o <<"~">> \o SecondTime(nt_text, i),
                                nt_out, p)
                  /\ EraseGlue(SubSeq(nt_out, 1, p - 1))
                        = EraseGlue(SubSeq(nt_text, 1, i - 1))
    /\ nt_pc = "twice" => nt_again = nt_out

\* C1 amended: two directly adjacent clock-time tokens whose first token does
\* not lie inside a range that starts earlier (ranges are paired left to
\* right without overlap) come out as first, exactly one '~', second, right
\* after the normalized text before them; and normalizing the output again
\* changes nothing.
C1_Pairing ==
    /\ nt_pc # "in" =>
         \A i \in 1..Len(nt_text) :
            (AdjacentTimes(nt_text, i) /\ ~InsideEarlierRange(nt_text, i)) =>
               LET pre  == normalize_time_ranges(SubSeq(nt_text, 1, i - 1))
                   pair == FirstTime(nt_text, i) \o <<"~">> \o SecondTime(nt_text, i)
               IN  nt_out = pre \o pair
                               \o normalize_time_ranges(From(nt_text, i + Len(pair) - 1))
    /\ nt_pc = "twice" => nt_again = nt_out

\* a text with three adjacent times, normalized twice
C1_Witness ==
    /\ nt_pc = "twice"
    /\ \E i \in 1..Len(nt_text) :
          /\ AdjacentTimes(nt_text, i) /\ ~InsideEarlierRange(nt_text, i)
          /\ AdjacentTimes(nt_text, i + TimeTokenLen(nt_text, i))
    /\ nt_out # nt_text

(***************************************************************************)
(* C2, C3, C4                                                              *)
(***************************************************************************)
\* the directory indexes of the labels that, spaces removed, are part of q
DirectIdx(q) == { n \in 1..Len(DirKeys) : Contains(q, RemoveBlanks(DirKeys[n])) }

DirIndexOf(key) == CHOOSE n \in 1..Len(DirKeys) : DirKeys[n] = key

IsDirectKey(key, q) == \E n \in DirectIdx(q) : DirKeys[n] = key

\* the best score any label reaches against q
BestScore(q) ==
    LET scores == { KeyScore(DirKeys[n], q) : n \in 1..Len(DirKeys) }
    IN  CHOOSE s \in scores : \A t \in scores : ~FracLess(s, t)

\* C2: every label that, spaces removed, is part of the stripped question is
\* in the returned list, and these labels come in directory order, whatever
\* the other labels score.
C2_SubstringLabels ==
    m_pc = "done" =>
       LET q == StripWhitespace(m_question)
       IN  /\ \A n \in DirectIdx(q) : InSeq(DirKeys[n], m_result.matched)
           /\ \A i, j \in 1..Len(m_result.matched) :
                 (i < j /\ IsDirectKey(m_result.matched[i], q) /\ IsDirectKey(m_result.matched[j], q))
                    => DirIndexOf(m_result.matched[i]) < DirIndexOf(m_result.matched[j])

\* a question with a label written with a space in the directory, while
\* another label that is no part of it scores at or above the cutoff
C2_Witness ==
    /\ m_pc = "done"
    /\ LET q == StripWhitespace(m_question)
       IN  /\ \E n \in DirectIdx(q) : InSeq(" ", DirKeys[n])
           /\ Cardinality(DirectIdx(q)) >= 2
           /\ \E n \in 1..Len(DirKeys) :
                 n \notin DirectIdx(q) /\ ~FracLess(KeyScore(DirKeys[n], q), CUTOFF)

CountIn(x, s) == Cardinality({ n \in 1..Len(s) : s[n] = x })

\* C3: when the question holds a time/fee/hours synonym, the returned list
\* holds "이용안내" exactly once, and as its last element unless the substring
\* or the similarity step had already matched it.
C3_UsageGuideOnce ==
    (m_pc = "done" /\ HasTimeFeeKeyword(StripWhitespace(m_question))) =>
       /\ CountIn(USAGE_GUIDE, m_result.matched) = 1
       /\ (~IsDirectKey(USAGE_GUIDE, StripWhitespace(m_question)) /\ m_result.guessed # USAGE_GUIDE)
             => m_result.matched[Len(m_result.matched)] = USAGE_GUIDE

\* a synonym alone: the usage guide is appended
C3_Witness ==
    /\ m_pc = "done"
    /\ HasTimeFeeKeyword(StripWhitespace(m_question))
    /\ ~Contains(m_question, USAGE_GUIDE)
    /\ m_result.matched = <<USAGE_GUIDE>>

\* C4: at most one guessed label, present only when no label is part of the
\* stripped question and the best score over all labels is at least 0.6; the
\* list is the substring matches, then the guess, then the appended "이용안내".
C4_OneGuessInOrder ==
    m_pc = "done" =>
       LET q  == StripWhitespace(m_question)
           nd == Cardinality(DirectIdx(q))
           ng == IF m_result.guessed = NoKey THEN 0 ELSE 1
       IN  /\ m_result.guessed # NoKey =>
                 /\ nd = 0
                 /\ ~FracLess(BestScore(q), CUTOFF)
                 /\ m_result.matched[1] = m_result.guessed
           /\ \A i \in 1..nd : IsDirectKey(m_result.matched[i], q)
           /\ Len(m_result.matched) \in {nd + ng, nd + ng + 1}
           /\ Len(m_result.matched) = nd + ng + 1 =>
                 /\ m_result.matched[nd + ng + 1] = USAGE_GUIDE
                 /\ HasTimeFeeKeyword(q)

\* a misspelt label with a synonym: the guess, then the usage guide
C4_Witness ==
    /\ m_pc = "done"
    /\ m_result.guessed # NoKey
    /\ m_result.guessed # USAGE_GUIDE
    /\ m_result.matched = <<m_result.guessed, USAGE_GUIDE>>

(***************************************************************************)
(* C5, C6                                                                  *)
(***************************************************************************)
Fields(record) == DOMAIN record

Failed == f_pc = "done" /\ f_outcome \in (PostFailures \cup GetFailures)

Succeeded == f_pc = "done" /\ f_outcome = "ok"

LastCall == f_calls[Len(f_calls)]

\* C5: when a request of the fetch fails (timeout, connection error,
\* non-success status, or on the board endpoint an answer that is no JSON),
\* the fetch ends by returning a record with the source URL and the generic
\* error marker and nothing else, and the request that failed was sent once.
C5_ErrorRecordOnly ==
    /\ Failed =>
          /\ Fields(f_result) = {"source", "error"}
          /\ f_result.source = f_url
          /\ f_result.error = LOAD_FAILED
          /\ \A n \in 1..(Len(f_calls) - 1) : f_calls[n] # LastCall
    /\ f_outcome \in (PostFailures \cup GetFailures) => f_pc = "done"

\* the GET fails after the board endpoint answered without HTML
C5_Witness ==
    /\ Failed
    /\ f_outcome = "timeout"
    /\ Len(f_calls) = 2
    /\ LastCall.method = "GET"

\* the string values of a JSON value, at any depth
RECURSIVE StringsIn(_)
StringsIn(obj) ==
    IF obj.t = "str" THEN {obj}
    ELSE UNION { StringsIn(obj.items[n].v) : n \in 1..Len(obj.items) }

TableAnywhere(data) == \E s \in StringsIn(data) : HasTableTag(s)

\* a non-empty string under the key "content" of a JSON object
UsableContent(data) ==
    /\ data.t = "dict"
    /\ \E n \in 1..Len(data.items) :
          /\ data.items[n].k = "content"
          /\ data.items[n].v.t = "str"
          /\ data.items[n].v.chars \o data.items[n].v.html # <<>>

\* C6: on a notice-detail URL a GET is only ever the second request, after
\* the POST to the board endpoint.  When the POST succeeded and the JSON has
\* no string with a table tag at any depth and no usable "content" string,
\* the original URL is fetched with GET and the record is built from its
\* body; when the JSON does yield HTML, the POST stays the only request and
\* the record is built without an error.
C6_PostThenGet ==
    IsNoticeDetail(f_url) =>
       /\ \A n \in 1..Len(f_calls) :
             f_calls[n].method = "GET" =>
                n = 2 /\ f_calls[1] = Request("POST", ApiUrl(f_url))
       /\ (f_pc = "done" /\ f_data # NoText) =>
             IF ~TableAnywhere(f_data) /\ ~UsableContent(f_data)
             THEN /\ f_calls = <<Request("POST", ApiUrl(f_url)), Request("GET", f_url)>>
                  /\ f_outcome = "ok" =>
                        /\ Fields(f_result) = {"source", "title", "facts", "has_rich"}
                        /\ f_result.facts = html_to_facts(Parse(f_body))
                        /\ f_result.title = extract_page_title(Parse(f_body))
             ELSE /\ f_calls = <<Request("POST", ApiUrl(f_url))>>
                  /\ f_outcome = "ok"
                  /\ Fields(f_result) = {"source", "title", "facts", "has_rich"}

\* the board answers with an object whose only strings lie two levels down
\* and hold no table; the GET body with a table is used
C6_Witness ==
    /\ Succeeded
    /\ f_data.t = "dict"
    /\ \E n \in 1..Len(f_data.items) : f_data.items[n].v.t \in {"dict", "list"}
    /\ \E s \in StringsIn(f_data) : s.html # <<>>
    /\ Len(f_calls) = 2
    /\ f_result.has_rich

(***************************************************************************)
(* C7                                                                      *)
(***************************************************************************)
\* s.split(sep)
RECURSIVE SplitOn(_, _)
SplitOn(s, sep) ==
    IF \E i \in 1..Len(s) : IsPrefixAt(sep, s, i)
    THEN LET i == CHOOSE i \in 1..Len(s) :
                     IsPrefixAt(sep, s, i) /\ \A j \in 1..(i - 1) : ~IsPrefixAt(sep, s, j)
         IN  <<SubSeq(s, 1, i - 1)>> \o SplitOn(From(s, i + Len(sep)), sep)
    ELSE <<s>>

\* the cells of a grid line "| c1 | c2 |"; none when the line is no grid row
CellsOf(line) ==
    IF Len(line) >= 4 /\ IsPrefixAt(<<"|", " ">>, line, 1)
          /\ IsPrefixAt(<<" ", "|">>, line, Len(line) - 1)
    THEN SplitOn(SubSeq(line, 3, Len(line) - 2), <<" ", "|", " ">>)
    ELSE <<>>

\* the document is one table whose rows have unequal cell counts
OneUnevenTable ==
    /\ Len(x_html) = 1
    /\ x_html[1].tag = "table"
    /\ \E r, s \in 1..Len(x_html[1].rows) : Len(x_html[1].rows[r]) # Len(x_html[1].rows[s])

WidestRow == MaxLen(x_html[1].rows)

\* the rows with cells: the first is the header, the others the body
EmittedRows == SelectSeq(x_html[1].rows, LAMBDA row : row # <<>>)

\* C7 as stated, "rows" read as the body rows: the grid of a table with
\* unequal rows has one line for the header, one for the separator and one
\* for each body row, every line has as many cells as the widest row, and
\* the cells past a row's own are empty.
C7_Grid ==
    (x_pc # "in" /\ OneUnevenTable) =>
       LET lines == SplitOn(x_tables, <<"\n">>)
       IN  /\ Len(lines) = (Len(EmittedRows) - 1) + 2
           /\ \A k \in 1..Len(lines) : Len(CellsOf(lines[k])) = WidestRow
           /\ \A r \in 1..Len(EmittedRows) :
                 LET k == IF r = 1 THEN 1 ELSE r + 1
                 IN  \A c \in (Len(EmittedRows[r]) + 1)..WidestRow :
                        k <= Len(lines) /\ c <= Len(CellsOf(lines[k]))
                           => CellsOf(lines[k])[c] = <<>>

\* the same for tables whose cells hold no line break
C7_GridOfOneLineCells ==
    (/\ x_pc # "in"
     /\ OneUnevenTable
     /\ \A r \in 1..Len(x_html[1].rows) : \A c \in 1..Len(x_html[1].rows[r]) :
           ~InSeq("\n", x_html[1].rows[r][c].text))
       => C7_Grid

(***************************************************************************)
(* C8, C9, C10                                                             *)
(***************************************************************************)
\* the stripped, non-empty src values of the img elements left after
\* cleaning, in document order
ImageSources(html) ==
    SelectSeq([n \in 1..Len(html) |->
                  IF html[n].tag = "img" /\ ~html[n].hidden THEN Strip(html[n].src) ELSE <<>>],
              LAMBDA s : s # <<>>)

Resolved(src) == IF Head(src) = "/" THEN MUSEUM_BASE_URL \o src ELSE src

FirstSource(url, srcs) == CHOOSE n \in 1..Len(srcs) :
    Resolved(srcs[n]) = url /\ \A k \in 1..(n - 1) : Resolved(srcs[k]) # url

IsSuffix(sub, s) == Len(sub) <= Len(s) /\ IsPrefixAt(sub, s, Len(s) - Len(sub) + 1)

\* C8: the image list holds, for every non-empty source, the source itself
\* or, when it begins with '/', the site origin followed by it; no URL is
\* in the list twice; URLs are ordered by their first occurrence in the
\* document; and the image section of the facts lists the same URLs.
C8_ImageUrls ==
    x_pc = "done" =>
       LET urls == x_shown.image_urls
           srcs == ImageSources(x_html)
       IN  /\ \A n \in 1..Len(srcs) : InSeq(Resolved(srcs[n]), urls)
           /\ \A k \in 1..Len(urls) : \E n \in 1..Len(srcs) : urls[k] = Resolved(srcs[n])
           /\ \A i, j \in 1..Len(urls) : i # j => urls[i] # urls[j]
           /\ \A i, j \in 1..Len(urls) :
                 i < j => FirstSource(urls[i], srcs) < FirstSource(urls[j], srcs)
           /\ IF urls = <<>> THEN ~Contains(x_facts, IMAGES_HEADER)
              ELSE IsSuffix(IMAGES_HEADER \o <<"\n">> \o Join(urls, <<"\n">>), x_facts)

\* a root-relative source, the same address written in full, and another
\* address after them
C8_Witness ==
    /\ x_pc = "done"
    /\ Len(ImageSources(x_html)) = 3
    /\ ImageSources(x_html)[1] = <<"/", "a">>
    /\ ImageSources(x_html)[2] = MUSEUM_BASE_URL \o <<"/", "a">>
    /\ Len(x_shown.image_urls) = 2

\* the HTML the record of a fetch without error was built from
UsedHtml ==
    IF LastCall.method = "GET" THEN Parse(f_body) ELSE Parse(BoardHtml(f_data))

\* a header, a line break and the section's text; nothing for no text
Section(header, body) == IF body = <<>> THEN <<>> ELSE <<header \o <<"\n">> \o body>>

\* C9: the facts of a fetch without error are never empty: they are the
\* fixed placeholder exactly when the page has no text, no table and no
\* image, and otherwise the non-empty ones of the text, table and image
\* sections, in this order, separated by an empty line.
C9_FactsNeverEmpty ==
    (f_pc = "done" /\ "error" \notin Fields(f_result)) =>
       LET text   == TextBlock(Decompose(UsedHtml))
           tables == extract_tables_from_html(Decompose(UsedHtml), MAX_TABLES)
           images == Join(ImageUrls(Decompose(UsedHtml)), <<"\n">>)
       IN  /\ f_result.facts # <<>>
           /\ f_result.facts = NOTHING_FOUND
                 <=> (text = <<>> /\ tables = <<>> /\ images = <<>>)
           /\ f_result.facts # NOTHING_FOUND =>
                 f_result.facts =
                    Join(Section(TEXT_HEADER, text) \o Section(TABLES_HEADER, tables)
                            \o Section(IMAGES_HEADER, images), <<"\n", "\n">>)

\* a page with elements, none of which yields anything
C9_Witness ==
    /\ Succeeded
    /\ LastCall.method = "GET"
    /\ Len(Parse(f_body)) = Len(JunkElems)
    /\ f_result.facts = NOTHING_FOUND

\* the facts hold the section: at their start or after an empty line
HasSection(facts, header) ==
    \/ IsPrefixAt(header \o <<"\n">>, facts, 1)
    \/ Contains(facts, <<"\n", "\n">> \o header \o <<"\n">>)

\* C10: in every record without error, has_rich is true exactly when the
\* display extraction over the same HTML gives a non-empty table text or at
\* least one image URL, and exactly when the facts of the record hold a
\* table section or an image section.
C10_HasRich ==
    (f_pc = "done" /\ "error" \notin Fields(f_result)) =>
       /\ f_result.has_rich <=>
             (\/ extract_tables_and_images_for_display(UsedHtml).tables_md # <<>>
              \/ extract_tables_and_images_for_display(UsedHtml).image_urls # <<>>)
       /\ f_result.has_rich <=>
             (\/ HasSection(f_result.facts, TABLES_HEADER)
              \/ HasSection(f_result.facts, IMAGES_HEADER))

\* a page with an image and no table
C10_Witness ==
    /\ Succeeded
    /\ f_result.has_rich
    /\ ~HasSection(f_result.facts, TABLES_HEADER)
    /\ HasSection(f_result.facts, IMAGES_HEADER)

(***************************************************************************)
(* C13                                                                     *)
(***************************************************************************)
\* the record was built from the board's answer
FromBoard == Succeeded /\ LastCall.method = "POST"

\* the title fields of data that hold a string not empty after stripping,
\* stripped, in the order title, subject, boardTitle
TitlesIn(data) ==
    SelectSeq([n \in 1..3 |->
                  IF data.t = "dict" /\ Get(data, TitleKeys[n]).t = "str"
                  THEN Strip(Get(data, TitleKeys[n]).chars) ELSE <<>>],
              LAMBDA title : title # <<>>)

\* C13 as stated: on the board path the title of the record is the first
\* of the fields title, subject, boardTitle that holds a string not empty
\* after stripping; only when there is none is it inferred from the HTML.
C13_FirstNonEmptyField ==
    FromBoard =>
       IF TitlesIn(f_data) # <<>>
       THEN f_result.title = TitlesIn(f_data)[1]
       ELSE f_result.title = extract_page_title(Parse(BoardHtml(f_data)))

\* the same for answers in which no title field holds a blank string
C13_WithoutBlankFields ==
    (/\ FromBoard
     /\ \A n \in 1..3 :
           Get(f_data, TitleKeys[n]).t = "str" => Strip(Get(f_data, TitleKeys[n]).chars) # <<>>)
       => C13_FirstNonEmptyField

(***************************************************************************)
(* C16                                                                     *)
(***************************************************************************)
\* the directory indexes of the labels that reach the best score against q
BestIdx(q) ==
    { n \in 1..Len(DirKeys) : ~FracLess(KeyScore(DirKeys[n], q), BestScore(q)) }

\* the directory indexes of the labels that, spaces removed, contain q
ContainingIdx(q) == { n \in 1..Len(DirKeys) : Contains(RemoveBlanks(DirKeys[n]), q) }

First(idx) == CHOOSE n \in idx : \A k \in idx : n <= k

\* "홈페이지"
HOME_PAGE == <<"hom", "pe", "i_", "ji">>

\* C16: the label returned is the earliest, in directory order, of the
\* labels with the highest score, when that score is positive and at least
\* the cutoff, and none otherwise; a question that, whitespace removed, is
\* part of several labels gives the first of them; a question that is empty
\* after whitespace removal gives the first label of the directory, "홈페이지".
C16_EarliestOfBest ==
    g_pc = "done" =>
       LET q == StripWhitespace(g_question)
       IN  /\ g_key = IF FracLess(Frac(0, 1), BestScore(q)) /\ ~FracLess(BestScore(q), CUTOFF)
                      THEN DirKeys[First(BestIdx(q))]
                      ELSE NoKey
           /\ Cardinality(ContainingIdx(q)) >= 2 => g_key = DirKeys[First(ContainingIdx(q))]
           /\ q = <<>> => g_key = HOME_PAGE /\ DirKeys[1] = HOME_PAGE

\* a question that is part of several labels, the first of which is not the
\* first label of the directory
C16_Witness ==
    /\ g_pc = "done"
    /\ Cardinality(ContainingIdx(StripWhitespace(g_question))) >= 2
    /\ g_key # HOME_PAGE
    /\ g_key = DirKeys[First(ContainingIdx(StripWhitespace(g_question)))]

\* blanks only: the first label is the guess
C16_WitnessEmpty ==
    /\ g_pc = "done"
    /\ g_question = <<" ", "\n">>
    /\ g_key = HOME_PAGE


(***************************************************************************)
(* Claims about run_chat_assistant                                         *)
(***************************************************************************)
\* the latest run that worked on a question has come to its end
Processed == c_end \in {"guide", "answer"}

LastReply == s_messages[Len(s_messages)]

AllFailed == \A n \in 1..Len(c_fetched) : c_fetched[n].failed

\* C11: a run whose question matches no label sends no request and does not
\* call the model, and its reply is the guidance message with the address of
\* the usage guide and of the site map; a run whose question matches at
\* least one label calls the model once, also when every page failed to load.
C11_GuidanceOrModel ==
    /\ (c_end \in {"running", "guide", "answer"} /\ c_matched = <<>>) =>
          /\ f_pc = "idle" /\ f_calls = <<>>
          /\ c_fetched = <<>>
          /\ c_llm = 0
    /\ (Processed /\ c_matched = <<>>) =>
          /\ LastReply = Message("assistant", GuidanceMessage)
          /\ Contains(LastReply.content, UrlOf(USAGE_GUIDE))
          /\ Contains(LastReply.content, MUSEUM_BASE_URL \o SITE_MAP_PATH)
    /\ (Processed /\ c_matched # <<>>) =>
          /\ Len(c_fetched) = Len(c_matched)
          /\ c_llm = 1
          /\ LastReply.content # GuidanceMessage

\* a run with two labels whose pages both failed to load
C11_Witness ==
    /\ Processed
    /\ Len(c_matched) = 2
    /\ Len(c_fetched) = 2
    /\ AllFailed
    /\ c_llm = 1

\* the labels are fetched in the order of matched_keys, each at its address
InMatchOrder ==
    /\ Len(c_fetched) <= Len(c_matched)
    /\ \A n \in 1..Len(c_fetched) :
          /\ c_fetched[n].key = c_matched[n]
          /\ c_fetched[n].url = UrlOf(c_matched[n])

\* a page is asked for only inside the loop, after the pages before it have
\* come back, and the model is called after the last one
OneAtATime ==
    /\ f_pc # "idle" =>
          /\ c_pc = "pages"
          /\ Len(c_fetched) < Len(c_matched)
          /\ f_url = UrlOf(c_matched[Len(c_fetched) + 1])
          /\ c_llm = 0
    /\ c_llm > 0 => (f_pc = "idle" /\ Len(c_fetched) = Len(c_matched))

\* C12 as stated: the pages are fetched one after the other in the order of
\* the match result, all before the model is called, and every page costs
\* exactly one request.
C12_Original ==
    /\ InMatchOrder
    /\ OneAtATime
    /\ \A n \in 1..Len(c_fetched) : Len(c_fetched[n].calls) = 1

\* C12, amended: the pages are fetched one after the other in the order of
\* the match result, all before the model is called; a page costs one
\* request, the GET of its address or the POST to the board API, or two for
\* a notice page whose POST gave no usable HTML: the POST and then the GET.
C12_Sequential ==
    /\ InMatchOrder
    /\ OneAtATime
    /\ \A n \in 1..Len(c_fetched) :
          IF IsNoticeDetail(c_fetched[n].url)
          THEN \/ c_fetched[n].calls = <<Request("POST", ApiUrl(c_fetched[n].url))>>
               \/ c_fetched[n].calls = <<Request("POST", ApiUrl(c_fetched[n].url)),
                                         Request("GET", c_fetched[n].url)>>
          ELSE c_fetched[n].calls = <<Request("GET", c_fetched[n].url)>>

\* two labels; the second page, a notice, took the POST and the GET
C12_Witness ==
    /\ c_end = "answer"
    /\ Len(c_fetched) = 2
    /\ Len(c_fetched[1].calls) = 1
    /\ Len(c_fetched[2].calls) = 2
    /\ c_llm = 1

\* the history is user, assistant, user, assistant, ...
Alternates ==
    \A n \in 1..Len(s_messages) :
        s_messages[n].role = IF n % 2 = 1 THEN "user" ELSE "assistant"

\* C14: the history alternates, and between two runs it holds no question
\* without the reply that follows it.
C14_Alternating ==
    /\ Alternates
    /\ c_pc = "idle" => Len(s_messages) % 2 = 0

\* C14 for the runs that come to their end: such a run has put one question
\* and then one reply at the end of the history, whatever the pages and the
\* model did.
C14_RunToTheEnd ==
    Processed =>
        /\ Len(s_messages) >= 2
        /\ s_messages[Len(s_messages) - 1] = Message("user", c_user_msg)
        /\ LastReply.role = "assistant"

\* the question a run started by a button of the second row works on
CannedQuery(widget) == Topic(widget[2]).children[widget[3]].query

IsChild(widget) == widget # <<>> /\ widget[1] = "topic_child"

AtRoot == s_stage = "root" /\ s_group = NoGroup /\ s_pending = <<>>

\* C15: pending_query is empty while a run matches and fetches and between
\* the runs; the run started by a button of the second row works on the
\* question of that button; after the run started by a back button
\* topic_stage is "root", topic_group is None and pending_query is empty.
C15_PendingOnce ==
    /\ s_pending = <<>>
    /\ (IsChild(c_trigger) /\ c_end \in {"running", "guide", "answer"}) =>
          c_user_msg = CannedQuery(c_trigger)
    /\ c_trigger \in {TOPIC_BACK, GLOBAL_BACK} => AtRoot

\* C15 without the back button below the reply
C15_TopicBackOnly ==
    /\ s_pending = <<>>
    /\ (IsChild(c_trigger) /\ c_end \in {"running", "guide", "answer"}) =>
          c_user_msg = CannedQuery(c_trigger)
    /\ c_trigger = TOPIC_BACK => AtRoot
====
